---- MODULE Spec2Model ----
(***************************************************************************)
(* Meeting detector, recording lifecycle coordinator and audio pipeline of *)
(* the desktop companion (apps/desktop/src-tauri).                         *)
(*                                                                         *)
(* Option<T> values are sets: None is {} and Some(x) is {x}.               *)
(* Every `let guard = m.lock().unwrap(); ... ` block of the source is one  *)
(* atomic action: the mutex serialises it against every other holder.      *)
(***************************************************************************)
EXTENDS Integers, Sequences, FiniteSets, Bags, TLC

VARIABLES
    now,              \* wall clock (chrono::Utc::now), in clock ticks
    monitoring,       \* MeetingDetector.monitoring: the run flag
    meeting_state,    \* MeetingDetector.state: MeetingState
    loops,            \* the poll-loop threads spawned by start_monitoring
    snapshot,         \* the MeetingState clone last returned by get_state
    detector_result,  \* what the last start_monitoring / stop_monitoring call did
    poisoned,         \* the mutexes poisoned by a thread that panicked holding them
    notifier,         \* lib.rs: the locals of the thread that watches the MeetingState
    emitted,          \* lib.rs: the meeting events that thread has emitted to the frontend
    probes,           \* what the probes of one detection pass report
    detected,         \* what detect_meeting_apps made of them
    writer,           \* audio_system.rs: the sample channel and writer thread of one session
    task_events,      \* the transcription events emitted to the frontend, oldest first
    lock_owner,       \* the thread that holds the guard of each mutex, None when it is free
    recording_state,  \* AppState.recording_state: RecordingState
    playback_state,   \* AppState.playback_state: PlaybackState
    recordings,       \* AppState.recordings: Vec<Recording>, newest first
    audio_recorder,   \* AppState.audio_recorder: RecorderState
    managers,         \* the audio-manager threads: command queue, stream, writer sender
    files,            \* the audio files that exist in the recordings directory
    metadata_file,    \* recordings.json: None while it does not exist
    tray_menu,        \* the tray's recording item: its label, and the update_tray_menu calls made
    transcriptions,   \* the transcription tasks spawned, a bag of recording ids
    next_uuid,        \* Uuid::new_v4: every call yields an id never given before
    pc,               \* where each caller of the command layer stands
    locals,           \* the local variables of the call each caller is in
    result,           \* the command that returned last, and what it returned
    tally             \* the commands served, and the start / stop calls that returned Ok

notifier_vars == <<notifier, emitted>>

classifier_vars == <<probes, detected>>

worker_vars == <<writer, task_events, lock_owner>>

detector_vars ==
    <<monitoring, meeting_state, loops, snapshot, detector_result, notifier_vars,
      classifier_vars>>

state_vars == <<recording_state, playback_state, recordings, audio_recorder>>

pipeline_vars == <<managers, files>>

caller_vars == <<pc, locals, result, tally>>

recorder_vars ==
    <<recording_state, playback_state, recordings, audio_recorder, managers, files,
      metadata_file, tray_menu, transcriptions, next_uuid, pc, locals, result, tally,
      worker_vars>>

vars ==
    <<now, monitoring, meeting_state, loops, snapshot, detector_result, poisoned,
      notifier, emitted, probes, detected, writer, task_events, lock_owner,
      recording_state, playback_state, recordings, audio_recorder, managers, files,
      metadata_file, tray_menu, transcriptions, next_uuid, pc, locals, result, tally>>

----------------------------------------------------------------------------
(* Bounds of the model *)

MaxTime == 1
MaxLoops == 2
MaxManagers == 2
NumCallers == 2
MaxCalls == 3
MaxListLen == 6
MaxLoads == 1
MaxEmitted == 2
MaxTabs == 2
MaxCommands == 2
MaxSamples == 3
MaxElapsed == 130
TicksPerSecond == 1

----------------------------------------------------------------------------
(* Option<T> *)

None == {}

Some(x) == {x}

is_some(o) == o # {}

unwrap(o) == CHOOSE x \in o : TRUE

\* The mutexes of AppState and of MeetingDetector.
Mutexes ==
    {"recording_state", "playback_state", "recordings", "audio_recorder", "monitoring",
     "state"}

----------------------------------------------------------------------------
(* The clock *)

\* Utc::now() read by a later statement is never earlier than one read before.
Tick ==
    /\ now < MaxTime
    /\ now' = now + 1
    /\ UNCHANGED <<detector_vars, poisoned, notifier_vars,
                   classifier_vars, recorder_vars>>

----------------------------------------------------------------------------
(* meeting_detector.rs *)

MeetingApp == {"Zoom", "SlackHuddle", "GoogleMeet", "MicrosoftTeams", "Discord", "Unknown"}

LoopIds == 1 .. MaxLoops

\* MeetingDetector::new
MeetingDetector_new_state ==
    [is_in_meeting |-> FALSE, detected_app |-> None, started_at |-> None]

\* A loop that has been spawned and has not left its `while`.
LoopRunning(l) == loops[l].pc \in {"check", "tick"}

RunningLoops == {l \in LoopIds : LoopRunning(l)}

\* A variant of poll_update whose "meeting ended" branch forgets to clear
\* started_at: the consistency of MeetingState must tell it from poll_update.
poll_update_keeps_started_at(current_state, meeting_detected, at) ==
    IF is_some(meeting_detected)
    THEN IF ~current_state.is_in_meeting
         THEN [is_in_meeting |-> TRUE,
               detected_app |-> Some(unwrap(meeting_detected)),
               started_at |-> Some(at)]
         ELSE current_state
    ELSE IF current_state.is_in_meeting
         THEN [is_in_meeting |-> FALSE, detected_app |-> None,
               started_at |-> current_state.started_at]
         ELSE current_state

\* A variant of poll_update that follows the classifier while in a meeting:
\* a tick that reports another app writes it into detected_app.
poll_update_follows_app(current_state, meeting_detected, at) ==
    IF is_some(meeting_detected)
    THEN IF ~current_state.is_in_meeting
         THEN [is_in_meeting |-> TRUE,
               detected_app |-> Some(unwrap(meeting_detected)),
               started_at |-> Some(at)]
         ELSE [current_state EXCEPT !.detected_app = Some(unwrap(meeting_detected))]
    ELSE IF current_state.is_in_meeting
         THEN [is_in_meeting |-> FALSE, detected_app |-> None, started_at |-> None]
         ELSE current_state

\* The body of one poll tick under the state lock, for the classifier result
\* `meeting_detected` (an Option<MeetingApp>).
poll_update(current_state, meeting_detected, at) ==
    IF is_some(meeting_detected)
    THEN IF ~current_state.is_in_meeting
         THEN [is_in_meeting |-> TRUE,
               detected_app |-> Some(unwrap(meeting_detected)),
               started_at |-> Some(at)]
         ELSE current_state
    ELSE IF current_state.is_in_meeting
         THEN [is_in_meeting |-> FALSE, detected_app |-> None, started_at |-> None]
         ELSE current_state

\* start_monitoring: refuses when the run flag is set, else sets it and spawns
\* the poll loop.  The guard on `monitoring` is held until the function returns.
start_monitoring ==
    /\ "monitoring" \notin poisoned
    /\ IF monitoring
       THEN /\ detector_result' = "AlreadyMonitoring"
            /\ UNCHANGED <<monitoring, loops>>
       ELSE /\ \E l \in LoopIds :
                 /\ loops[l].pc = "unspawned"
                 /\ \A k \in LoopIds : k < l => loops[k].pc # "unspawned"
                 /\ loops' = [loops EXCEPT ![l] = [pc |-> "check", stop_seen |-> FALSE]]
            /\ monitoring' = TRUE
            /\ detector_result' = "Started"
    /\ UNCHANGED <<now, meeting_state, snapshot, poisoned, notifier_vars,
                   classifier_vars, recorder_vars>>

\* stop_monitoring: clears the run flag.  stop_seen records, for each loop that
\* is running when the call returns, that a stop has been requested of it.
stop_monitoring ==
    /\ "monitoring" \notin poisoned
    /\ monitoring' = FALSE
    /\ loops' = [l \in LoopIds |->
                    IF LoopRunning(l) THEN [loops[l] EXCEPT !.stop_seen = TRUE]
                    ELSE loops[l]]
    /\ detector_result' = "Stopped"
    /\ UNCHANGED <<now, meeting_state, snapshot, poisoned, notifier_vars,
                   classifier_vars, recorder_vars>>

\* get_state: a clone of the MeetingState taken under its lock.
get_state ==
    /\ "state" \notin poisoned
    /\ snapshot' = Some(meeting_state)
    /\ UNCHANGED <<now, monitoring, meeting_state, loops, detector_result, poisoned, notifier_vars,
                   classifier_vars, recorder_vars>>

\* The loop's `while *monitoring_flag.lock().unwrap()` test, reached when the
\* thread starts and after each sleep.
poll_loop_check(l) ==
    /\ loops[l].pc = "check"
    /\ "monitoring" \notin poisoned
    /\ loops' = [loops EXCEPT ![l].pc = IF monitoring THEN "tick" ELSE "exited"]
    /\ UNCHANGED <<now, monitoring, meeting_state, snapshot, detector_result, poisoned, notifier_vars,
                   classifier_vars, recorder_vars>>

\* One tick: detect_meeting_apps(), then the update under the state lock, then
\* the sleep that leads back to the test of the run flag.
poll_loop_tick(l) ==
    /\ loops[l].pc = "tick"
    /\ "state" \notin poisoned
    /\ \E meeting_detected \in {None} \cup {Some(a) : a \in MeetingApp} :
          meeting_state' = poll_update(meeting_state, meeting_detected, now)
    /\ loops' = [loops EXCEPT ![l].pc = "check"]
    /\ UNCHANGED <<now, monitoring, snapshot, detector_result, poisoned, notifier_vars,
                   classifier_vars, recorder_vars>>

----------------------------------------------------------------------------
(* meeting_detector.rs: the classifier of one detection pass *)

\* The string literals of the URL rules, as sequences of characters.
URL_PATTERNS ==
    [
     meet_domain |-> <<"m", "e", "e", "t", ".", "g", "o", "o", "g", "l", "e", ".", "c",
         "o", "m", "/">>,
     meet_landing |-> <<"m", "e", "e", "t", ".", "g", "o", "o", "g", "l", "e", ".", "c",
         "o", "m", "/", "l", "a", "n", "d", "i", "n", "g">>,
     meet_settings |-> <<"m", "e", "e", "t", ".", "g", "o", "o", "g", "l", "e", ".", "c",
         "o", "m", "/", "_", "m", "e", "e", "t">>,
     meet_query |-> <<"m", "e", "e", "t", ".", "g", "o", "o", "g", "l", "e", ".", "c",
         "o", "m", "/", "?">>,
     meet_lookup |-> <<"l", "o", "o", "k", "u", "p", "/">>,
     zoom_join |-> <<"z", "o", "o", "m", ".", "u", "s", "/", "j", "/">>,
     zoom_web_client |-> <<"z", "o", "o", "m", ".", "u", "s", "/", "w", "c", "/">>,
     teams_join |-> <<"t", "e", "a", "m", "s", ".", "m", "i", "c", "r", "o", "s", "o",
         "f", "t", ".", "c", "o", "m", "/", "l", "/", "m", "e", "e", "t", "u", "p", "-", "j",
         "o", "i", "n">>,
     teams_live |-> <<"t", "e", "a", "m", "s", ".", "l", "i", "v", "e", ".", "c", "o",
         "m">>,
     slack_app |-> <<"a", "p", "p", ".", "s", "l", "a", "c", "k", ".", "c", "o", "m">>,
     huddle_path |-> <<"/", "h", "u", "d", "d", "l", "e", "/">>,
     huddle |-> <<"h", "u", "d", "d", "l", "e">>
    ]

\* The tab URLs the probes are drawn from, as sequences of characters.
TAB_URLS ==
    [
     \* "https://meet.google.com/abc-def-ghi"
     room |-> <<"h", "t", "t", "p", "s", ":", "/", "/", "m", "e", "e", "t", ".", "g",
         "o", "o", "g", "l", "e", ".", "c", "o", "m", "/", "a", "b", "c", "-", "d", "e", "f",
         "-", "g", "h", "i">>,
     \* "https://meet.google.com/"
     bare |-> <<"h", "t", "t", "p", "s", ":", "/", "/", "m", "e", "e", "t", ".", "g",
         "o", "o", "g", "l", "e", ".", "c", "o", "m", "/">>,
     \* "https://meet.google.com/landing"
     landing |-> <<"h", "t", "t", "p", "s", ":", "/", "/", "m", "e", "e", "t", ".", "g",
         "o", "o", "g", "l", "e", ".", "c", "o", "m", "/", "l", "a", "n", "d", "i", "n",
         "g">>,
     \* "https://meet.google.com/?x=1"
     query |-> <<"h", "t", "t", "p", "s", ":", "/", "/", "m", "e", "e", "t", ".", "g",
         "o", "o", "g", "l", "e", ".", "c", "o", "m", "/", "?", "x", "=", "1">>,
     \* "https://meet.google.com/_meet"
     settings |-> <<"h", "t", "t", "p", "s", ":", "/", "/", "m", "e", "e", "t", ".", "g",
         "o", "o", "g", "l", "e", ".", "c", "o", "m", "/", "_", "m", "e", "e", "t">>,
     \* "https://meet.google.com/abc-def"
     one_dash |-> <<"h", "t", "t", "p", "s", ":", "/", "/", "m", "e", "e", "t", ".", "g",
         "o", "o", "g", "l", "e", ".", "c", "o", "m", "/", "a", "b", "c", "-", "d", "e",
         "f">>,
     \* "https://meet.google.com/lookup/abc"
     lookup |-> <<"h", "t", "t", "p", "s", ":", "/", "/", "m", "e", "e", "t", ".", "g",
         "o", "o", "g", "l", "e", ".", "c", "o", "m", "/", "l", "o", "o", "k", "u", "p", "/",
         "a", "b", "c">>,
     \* "https://meet.google.com/abcdefghijklmnopqrstu-v-w"
     late_dashes |-> <<"h", "t", "t", "p", "s", ":", "/", "/", "m", "e", "e", "t", ".",
         "g", "o", "o", "g", "l", "e", ".", "c", "o", "m", "/", "a", "b", "c", "d", "e", "f",
         "g", "h", "i", "j", "k", "l", "m", "n", "o", "p", "q", "r", "s", "t", "u", "-", "v",
         "-", "w">>,
     \* "https://github.com"
     other |-> <<"h", "t", "t", "p", "s", ":", "/", "/", "g", "i", "t", "h", "u", "b",
         ".", "c", "o", "m">>,
     \* "https://zoom.us/j/123"
     zoom |-> <<"h", "t", "t", "p", "s", ":", "/", "/", "z", "o", "o", "m", ".", "u",
         "s", "/", "j", "/", "1", "2", "3">>,
     \* "https://teams.live.com/meet"
     teams |-> <<"h", "t", "t", "p", "s", ":", "/", "/", "t", "e", "a", "m", "s", ".",
         "l", "i", "v", "e", ".", "c", "o", "m", "/", "m", "e", "e", "t">>,
     \* "https://app.slack.com/client"
     slack |-> <<"h", "t", "t", "p", "s", ":", "/", "/", "a", "p", "p", ".", "s", "l",
         "a", "c", "k", ".", "c", "o", "m", "/", "c", "l", "i", "e", "n", "t">>,
     \* "https://example.com/huddle"
     huddle |-> <<"h", "t", "t", "p", "s", ":", "/", "/", "e", "x", "a", "m", "p", "l",
         "e", ".", "c", "o", "m", "/", "h", "u", "d", "d", "l", "e">>,
     \* "https://app.slack.com/huddle/T1"
     slack_huddle |-> <<"h", "t", "t", "p", "s", ":", "/", "/", "a", "p", "p", ".", "s",
         "l", "a", "c", "k", ".", "c", "o", "m", "/", "h", "u", "d", "d", "l", "e", "/", "T",
         "1">>
    ]

TabUrls == {TAB_URLS[u] : u \in DOMAIN TAB_URLS}

\* constants.rs: the room code is looked for in this many characters after
\* the domain, and needs this many dashes.
MEETING_URL_MAX_CHARS == 20
MEETING_URL_MIN_DASHES == 2

\* str: the pattern `pat` stands in `s` at index i (the first index is 1).
matches_at(s, pat, i) ==
    /\ i >= 1
    /\ i + Len(pat) - 1 <= Len(s)
    /\ \A k \in 1 .. Len(pat) : s[i + k - 1] = pat[k]

\* str::contains
contains(s, pat) == \E i \in 1 .. Len(s) : matches_at(s, pat, i)

\* str::starts_with
starts_with(s, pat) == matches_at(s, pat, 1)

\* str::ends_with
ends_with(s, pat) == matches_at(s, pat, Len(s) - Len(pat) + 1)

\* str::find: the index of the first occurrence.
find(s, pat) ==
    IF contains(s, pat)
    THEN Some(CHOOSE i \in 1 .. Len(s) :
                  /\ matches_at(s, pat, i)
                  /\ \A j \in 1 .. (i - 1) : ~matches_at(s, pat, j))
    ELSE None

\* str::lines: the text between line feeds; a line feed at the very end
\* opens no further line.
RECURSIVE lines(_)
lines(s) ==
    IF s = <<>> THEN <<>>
    ELSE IF \E i \in 1 .. Len(s) : s[i] = "\n"
    THEN LET i == CHOOSE i \in 1 .. Len(s) :
                      s[i] = "\n" /\ \A j \in 1 .. (i - 1) : s[j] # "\n"
         IN  <<SubSeq(s, 1, i - 1)>> \o lines(SubSeq(s, i + 1, Len(s)))
    ELSE <<s>>

\* chars().take(n)
take(s, n) == SubSeq(s, 1, IF Len(s) < n THEN Len(s) ELSE n)

\* filter(|&c| c == ch).count()
count_char(s, ch) == Cardinality({i \in 1 .. Len(s) : s[i] = ch})

\* A variant of room_code_pattern that is content with one dash anywhere.
room_code_pattern_any_dash(after_domain) == contains(after_domain, <<"-">>)

\* is_google_meet_room, lines 460-461: the test for a room code in the text
\* after the domain.
room_code_pattern(after_domain) ==
    /\ contains(after_domain, <<"-">>)
    /\ count_char(take(after_domain, MEETING_URL_MAX_CHARS), "-") >= MEETING_URL_MIN_DASHES

\* is_google_meet_room, lines 454-472: the body of the loop for one line.
meet_room_line(line) ==
    /\ contains(line, URL_PATTERNS.meet_domain)
    /\ LET start == unwrap(find(line, URL_PATTERNS.meet_domain))
           after_domain == SubSeq(line, start + 16, Len(line))
       IN  \/ room_code_pattern(after_domain)
           \/ starts_with(after_domain, URL_PATTERNS.meet_lookup)

is_google_meet_room(urls) ==
    IF ~contains(urls, URL_PATTERNS.meet_domain) THEN FALSE
    ELSE IF \/ contains(urls, URL_PATTERNS.meet_landing)
            \/ contains(urls, URL_PATTERNS.meet_settings)
            \/ contains(urls, URL_PATTERNS.meet_query)
            \/ ends_with(urls, URL_PATTERNS.meet_domain)
    THEN FALSE
    ELSE \E n \in 1 .. Len(lines(urls)) : meet_room_line(lines(urls)[n])

\* The AppleScript of check_chrome_urls and check_safari_urls: the URL of
\* every tab followed by a space; osascript ends what it prints with a line
\* feed.
RECURSIVE all_urls(_)
all_urls(tabs) ==
    IF tabs = <<>> THEN <<"\n">>
    ELSE Head(tabs) \o <<" ">> \o all_urls(Tail(tabs))

\* Command::new("osascript").output().ok(): None when the command could not be
\* run, else the text printed for the open tabs.
osascript(tabs) == IF tabs = None THEN None ELSE Some(all_urls(unwrap(tabs)))

\* check_chrome_urls on what osascript printed: None when it could not be run.
check_chrome_urls(output) ==
    IF output = None THEN None
    ELSE LET urls == unwrap(output)
         IN  IF is_google_meet_room(urls) THEN Some("GoogleMeet")
             ELSE IF contains(urls, URL_PATTERNS.zoom_join) \/ contains(urls, URL_PATTERNS.zoom_web_client)
             THEN Some("Zoom")
             ELSE IF contains(urls, URL_PATTERNS.teams_join) \/ contains(urls, URL_PATTERNS.teams_live)
             THEN Some("MicrosoftTeams")
             ELSE IF /\ contains(urls, URL_PATTERNS.slack_app)
                     /\ contains(urls, URL_PATTERNS.huddle_path) \/ contains(urls, URL_PATTERNS.huddle)
             THEN Some("SlackHuddle")
             ELSE None

\* check_safari_urls on what osascript printed.
check_safari_urls(output) ==
    IF output = None THEN None
    ELSE LET urls == unwrap(output)
         IN  IF is_google_meet_room(urls) THEN Some("GoogleMeet")
             ELSE IF contains(urls, URL_PATTERNS.zoom_join) \/ contains(urls, URL_PATTERNS.zoom_web_client)
             THEN Some("Zoom")
             ELSE IF contains(urls, URL_PATTERNS.teams_join) \/ contains(urls, URL_PATTERNS.teams_live)
             THEN Some("MicrosoftTeams")
             ELSE IF /\ contains(urls, URL_PATTERNS.slack_app)
                     /\ contains(urls, URL_PATTERNS.huddle_path) \/ contains(urls, URL_PATTERNS.huddle)
             THEN Some("SlackHuddle")
             ELSE None

\* check_dia_urls: Dia's tabs are not read; its hold on an audio device counts.
check_dia_urls(dia_microphone_usage) ==
    IF dia_microphone_usage THEN Some("Unknown") ELSE None

\* The text of `ps aux`, told by which of these names stand in it.
ProcessNames == {"zoom.us", "CptHost", "Slack", "Microsoft Teams", "Discord"}

\* check_running_processes: `ps` is None when the command could not be run.
check_running_processes(p) ==
    IF p.ps = None THEN None
    ELSE LET processes == unwrap(p.ps)
         IN  IF /\ "zoom.us" \in processes \/ "CptHost" \in processes
                /\ "CptHost" \in processes \/ p.zoom_meeting_window
             THEN Some("Zoom")
             ELSE IF "Slack" \in processes /\ p.slack_huddle_active
             THEN Some("SlackHuddle")
             ELSE IF "Microsoft Teams" \in processes /\ p.teams_call_active
             THEN Some("MicrosoftTeams")
             ELSE IF "Discord" \in processes /\ p.discord_voice_active
             THEN Some("Discord")
             ELSE None

\* A variant of check_browser_meeting_urls that asks Safari before Dia.
check_browser_meeting_urls_safari_first(p) ==
    IF is_some(check_chrome_urls(osascript(p.chrome)))
    THEN check_chrome_urls(osascript(p.chrome))
    ELSE IF is_some(check_safari_urls(osascript(p.safari)))
    THEN check_safari_urls(osascript(p.safari))
    ELSE check_dia_urls(p.dia_microphone_usage)

check_browser_meeting_urls(p) ==
    IF is_some(check_chrome_urls(osascript(p.chrome)))
    THEN check_chrome_urls(osascript(p.chrome))
    ELSE IF is_some(check_dia_urls(p.dia_microphone_usage))
    THEN check_dia_urls(p.dia_microphone_usage)
    ELSE check_safari_urls(osascript(p.safari))

\* check_microphone_usage: `microphone` is None when system_profiler could
\* not be run, else whether its report names zoom.
check_microphone_usage(p) ==
    IF p.microphone = None THEN None
    ELSE IF unwrap(p.microphone) THEN Some("Zoom") ELSE None

\* detect_meeting_apps on macOS.
detect_meeting_apps(p) ==
    IF is_some(check_running_processes(p)) THEN check_running_processes(p)
    ELSE IF is_some(check_browser_meeting_urls(p)) THEN check_browser_meeting_urls(p)
    ELSE check_microphone_usage(p)

\* The probes: `ps` is what `ps aux` named, `chrome` and `safari` the tabs
\* open, each None when its command cannot be run; `dia_tabs` are the tabs
\* open in Dia, which no probe reads.  On this machine nothing can be run.
NoProbes ==
    [ps |-> None, zoom_meeting_window |-> FALSE, slack_huddle_active |-> FALSE,
     teams_call_active |-> FALSE, discord_voice_active |-> FALSE,
     chrome |-> None, dia_microphone_usage |-> FALSE, dia_tabs |-> <<>>,
     safari |-> None, microphone |-> None]

\* No call has been made on the probes yet.
NotRun == [call |-> "none"]

\* One detection pass over the probes.
detect_meeting_apps_call ==
    /\ detected = NotRun
    /\ detected' = [call |-> "detect_meeting_apps", app |-> detect_meeting_apps(probes)]
    /\ UNCHANGED <<now, monitoring, meeting_state, loops, snapshot, detector_result,
                   poisoned, notifier_vars, probes, recorder_vars>>

\* check_chrome_urls alone, on the tabs Chrome has open.
check_chrome_urls_call ==
    /\ detected = NotRun
    /\ detected' = [call |-> "check_chrome_urls",
                     app |-> check_chrome_urls(osascript(probes.chrome))]
    /\ UNCHANGED <<now, monitoring, meeting_state, loops, snapshot, detector_result,
                   poisoned, notifier_vars, probes, recorder_vars>>

\* is_google_meet_room on the URL of one of the tabs Chrome has open.
is_google_meet_room_call ==
    /\ detected = NotRun
    /\ is_some(probes.chrome)
    /\ \E n \in 1 .. Len(unwrap(probes.chrome)) :
          detected' = [call |-> "is_google_meet_room", url |-> unwrap(probes.chrome)[n],
                       accepted |-> is_google_meet_room(unwrap(probes.chrome)[n])]
    /\ UNCHANGED <<now, monitoring, meeting_state, loops, snapshot, detector_result,
                   poisoned, notifier_vars, probes, recorder_vars>>

----------------------------------------------------------------------------
(* lib.rs: the thread that tells the frontend about meetings *)

\* The locals of the thread spawned in setup, before its first pass.
notifier_thread_new == [was_in_meeting |-> FALSE, notification_shown |-> FALSE]

\* One pass of the loop in lib.rs 408-466 over the MeetingState it sampled:
\* `window` tells whether get_webview_window("notification") found the
\* window.  "meeting-detected" is emitted inside the branch that found it.
notifier_thread_pass(nt, events, sampled, window) ==
    LET started == sampled.is_in_meeting /\ ~nt.was_in_meeting
        ended == ~sampled.is_in_meeting /\ nt.was_in_meeting
        shows == started /\ ~nt.notification_shown /\ window
    IN  [notifier |->
             [was_in_meeting |-> sampled.is_in_meeting,
              notification_shown |->
                  IF shows THEN TRUE
                  ELSE IF ended THEN FALSE
                  ELSE nt.notification_shown],
         emitted |->
             IF shows THEN Append(events, "meeting-detected")
             ELSE IF ended THEN Append(events, "meeting-ended")
             ELSE events]

\* The thread samples the MeetingState with get_state and makes one pass; it
\* sleeps two seconds between passes, whatever the poll loops do meanwhile.
notifier_thread_tick ==
    /\ "state" \notin poisoned
    /\ \E window \in BOOLEAN :
          LET pass == notifier_thread_pass(notifier, emitted, meeting_state, window)
          IN  /\ Len(pass.emitted) <= MaxEmitted
              /\ notifier' = pass.notifier
              /\ emitted' = pass.emitted
    /\ UNCHANGED <<now, monitoring, meeting_state, loops, snapshot, detector_result,
                   poisoned, classifier_vars, recorder_vars>>

----------------------------------------------------------------------------
(* meeting_detector.rs: panics and poisoned locks *)

\* thread::spawn panics when the OS cannot create the thread.  In
\* start_monitoring it runs under the guard of `monitoring`, after the flag
\* was set: the guard is dropped by the unwinding and the mutex is poisoned.
start_monitoring_spawn_panics ==
    /\ "monitoring" \notin poisoned
    /\ ~monitoring
    /\ monitoring' = TRUE
    /\ poisoned' = poisoned \cup {"monitoring"}
    /\ detector_result' = "Panicked"
    /\ UNCHANGED <<now, meeting_state, loops, snapshot, notifier_vars, classifier_vars,
                   recorder_vars>>

\* println! panics when stdout cannot be written.  The two println! of the
\* poll loop run under the state lock, after the fields of an edge were set.
poll_loop_tick_println_panics(l) ==
    /\ loops[l].pc = "tick"
    /\ "state" \notin poisoned
    /\ \E meeting_detected \in {None} \cup {Some(a) : a \in MeetingApp} :
          /\ poll_update(meeting_state, meeting_detected, now) # meeting_state
          /\ meeting_state' = poll_update(meeting_state, meeting_detected, now)
    /\ poisoned' = poisoned \cup {"state"}
    /\ loops' = [loops EXCEPT ![l].pc = "panicked"]
    /\ UNCHANGED <<now, monitoring, snapshot, detector_result, notifier_vars, classifier_vars,
                   recorder_vars>>

\* self.monitoring.lock().unwrap() in start_monitoring on the poisoned mutex:
\* lock() returns Err(PoisonError) and unwrap() panics in the caller.
start_monitoring_poisoned ==
    /\ "monitoring" \in poisoned
    /\ detector_result' = "PoisonError"
    /\ UNCHANGED <<now, monitoring, meeting_state, loops, snapshot, poisoned, notifier_vars,
                   classifier_vars, recorder_vars>>

\* self.monitoring.lock().unwrap() in stop_monitoring on the poisoned mutex:
\* the flag is not cleared.
stop_monitoring_poisoned ==
    /\ "monitoring" \in poisoned
    /\ detector_result' = "PoisonErrorInStop"
    /\ UNCHANGED <<now, monitoring, meeting_state, loops, snapshot, poisoned, notifier_vars,
                   classifier_vars, recorder_vars>>

\* self.state.lock().unwrap() in get_state on the poisoned mutex: no snapshot
\* is returned.
get_state_poisoned ==
    /\ "state" \in poisoned
    /\ detector_result' = "PoisonError"
    /\ snapshot' = None
    /\ UNCHANGED <<now, monitoring, meeting_state, loops, poisoned, notifier_vars,
                   classifier_vars, recorder_vars>>

\* monitoring_flag.lock().unwrap() in the loop's `while` on the poisoned mutex:
\* the poll thread panics.
poll_loop_check_poisoned(l) ==
    /\ loops[l].pc = "check"
    /\ "monitoring" \in poisoned
    /\ loops' = [loops EXCEPT ![l].pc = "poison_panicked"]
    /\ UNCHANGED <<now, monitoring, meeting_state, snapshot, detector_result, poisoned,
                   notifier_vars, classifier_vars, recorder_vars>>

\* state.lock().unwrap() in the loop's body on the poisoned mutex: the poll
\* thread panics.
poll_loop_tick_poisoned(l) ==
    /\ loops[l].pc = "tick"
    /\ "state" \in poisoned
    /\ loops' = [loops EXCEPT ![l].pc = "poison_panicked"]
    /\ UNCHANGED <<now, monitoring, meeting_state, snapshot, detector_result, poisoned,
                   notifier_vars, classifier_vars, recorder_vars>>

----------------------------------------------------------------------------
(* Paths, records and files *)

Path(stamp, ext) == [stamp |-> stamp, ext |-> ext]

\* start_recording: format!("recording_{}.wav", start_time.format("%Y%m%d_%H%M%S")),
\* the start time cut to whole seconds, joined to the recordings directory.
recording_file_path(start_time) == Path(start_time \div TicksPerSecond, "wav")

\* Path::with_extension
with_extension(path, ext) == [path EXCEPT !.ext = ext]

\* Display of an integer that is not negative: its decimal digits, the
\* highest first, one character each.
RECURSIVE decimal(_)
decimal(n) ==
    LET digits == <<"0", "1", "2", "3", "4", "5", "6", "7", "8", "9">>
    IN  IF n < 10
        THEN <<digits[n + 1]>>
        ELSE decimal(n \div 10) \o <<digits[(n % 10) + 1]>>

\* The format spec {:0width$}: zeros in front up to the width, nothing cut.
RECURSIVE zero_padded(_, _)
zero_padded(text, width) ==
    IF Len(text) < width THEN zero_padded(<<"0">> \o text, width) ELSE text

\* A variant of format_duration that writes the seconds without padding.
format_duration_unpadded(duration_seconds) ==
    decimal(duration_seconds \div 60) \o <<":">> \o decimal(duration_seconds % 60)

\* format!("{}:{:02}", duration_seconds / 60, duration_seconds % 60), for a
\* duration that is not negative.
format_duration(duration_seconds) ==
    decimal(duration_seconds \div 60) \o <<":">>
        \o zero_padded(decimal(duration_seconds % 60), 2)

\* (end_time - start_time).num_seconds()
num_seconds(start_time, end_time) == (end_time - start_time) \div TicksPerSecond

\* The retention count of the recordings list: the literal 5 of stop_recording
\* and load_recordings_metadata, MAX_RECENT_RECORDINGS of constants.rs.
MAX_RECENT_RECORDINGS == 5

\* serde_json::to_string_pretty(recordings): a JSON array in which
\* RecordingStatus is written in lowercase (rename_all = "lowercase") and the
\* other fields as they are.  `text` says what kind of text the file holds.
to_json(recs) ==
    [text |-> "array",
     entries |->
        [i \in 1 .. Len(recs) |->
            [id |-> recs[i].id, filename |-> recs[i].filename,
             duration |-> recs[i].duration, timestamp |-> recs[i].timestamp,
             status |-> CASE recs[i].status = "Local" -> "local"
                          [] recs[i].status = "Uploaded" -> "uploaded"
                          [] recs[i].status = "Failed" -> "failed"]]]

\* A variant of from_json that hands back the entries as they are written.
from_json_as_written(content) ==
    IF content.text # "array"
    THEN [ok |-> FALSE, recordings |-> <<>>]
    ELSE [ok |-> TRUE, recordings |-> content.entries]

\* serde_json::from_str::<Vec<Recording>>: Err on any text that is not a JSON
\* array of recordings (the empty text and white space included), else the
\* entries with their status read back.
from_json(content) ==
    IF content.text # "array"
    THEN [ok |-> FALSE, recordings |-> <<>>]
    ELSE [ok |-> TRUE,
          recordings |->
             [i \in 1 .. Len(content.entries) |->
                 [id |-> content.entries[i].id,
                  filename |-> content.entries[i].filename,
                  duration |-> content.entries[i].duration,
                  timestamp |-> content.entries[i].timestamp,
                  status |-> CASE content.entries[i].status = "local" -> "Local"
                               [] content.entries[i].status = "uploaded" -> "Uploaded"
                               [] content.entries[i].status = "failed" -> "Failed"]]]

\* save_recordings_metadata: the whole list replaces the metadata file.
save_recordings_metadata(recs) == Some(to_json(recs))

\* valid_recordings.sort_by(|a, b| b.timestamp.cmp(&a.timestamp)): a stable
\* sort, newest first.
RECURSIVE sort_by_timestamp_desc(_)
sort_by_timestamp_desc(recs) ==
    IF recs = <<>>
    THEN <<>>
    ELSE LET rest == sort_by_timestamp_desc(Tail(recs))
             newer == Cardinality({i \in 1 .. Len(rest) :
                                      rest[i].timestamp > Head(recs).timestamp})
         IN  SubSeq(rest, 1, newer) \o <<Head(recs)>> \o SubSeq(rest, newer + 1, Len(rest))

\* Vec::truncate
truncate(recs, len) == IF Len(recs) > len THEN SubSeq(recs, 1, len) ELSE recs

\* A variant of valid_recordings that keeps every entry.
valid_recordings_unfiltered(recs, fs) == recs

\* The loop of load_recordings_metadata that keeps the recordings whose file exists.
valid_recordings(recs, fs) ==
    LET file_exists(recording) == recording.filename \in fs
    IN  SelectSeq(recs, file_exists)

\* load_recordings_metadata: Ok(empty) without the metadata file; Err when the
\* directory cannot be had or the text does not parse; else the entries whose
\* file exists, newest first, cut to the retention count.
load_recordings_metadata(metadata, fs, recordings_dir_ok) ==
    IF ~recordings_dir_ok
    THEN [ok |-> FALSE, recordings |-> <<>>]
    ELSE IF metadata = None
    THEN [ok |-> TRUE, recordings |-> <<>>]
    ELSE IF ~from_json(unwrap(metadata)).ok
    THEN [ok |-> FALSE, recordings |-> <<>>]
    ELSE [ok |-> TRUE,
          recordings |->
             truncate(sort_by_timestamp_desc(
                         valid_recordings(from_json(unwrap(metadata)).recordings, fs)),
                      MAX_RECENT_RECORDINGS)]

----------------------------------------------------------------------------
(* audio_system.rs: RecorderState and the audio-manager thread *)

ManagerIds == 1 .. MaxManagers

\* RecorderState::new
RecorderState_new ==
    [command_sender |-> None, current_file_path |-> None, is_recording |-> FALSE]

\* A thread that was never spawned, and the locals of audio_manager_thread
\* when it starts.
NoManager ==
    [status |-> "unspawned", queue |-> <<>>, current_stream |-> None,
     current_writer_sender |-> None, last_log |-> "None"]

audio_manager_thread_new == [NoManager EXCEPT !.status = "running"]

\* The slot the next thread::spawn of an audio-manager thread takes: a thread
\* that has returned holds nothing, so its slot is free again.
FreeManagers(mgrs) == {m \in ManagerIds : mgrs[m].status # "running"}

FreeManager(mgrs) ==
    CHOOSE m \in FreeManagers(mgrs) : \A k \in FreeManagers(mgrs) : m <= k

\* RecorderState::initialize: nothing when a sender is held, else a new channel
\* and a new audio-manager thread reading it.
initialize(ar, mgrs) ==
    IF is_some(ar.command_sender)
    THEN [audio_recorder |-> ar, managers |-> mgrs]
    ELSE [audio_recorder |-> [ar EXCEPT !.command_sender = Some(FreeManager(mgrs))],
          managers |-> [mgrs EXCEPT ![FreeManager(mgrs)] = audio_manager_thread_new]]

CanInitialize(ar, mgrs) == is_some(ar.command_sender) \/ FreeManagers(mgrs) # {}

\* sender.send(command) on the unbounded channel of manager m
send(mgrs, m, command) == [mgrs EXCEPT ![m].queue = Append(@, command)]

\* What start_audio_recording can come to.
StartRecordingOutcomes ==
    {"ok", "no_input_device", "writer_create_failed", "stream_build_failed"}

\* What start_audio_playback can come to.
StartPlaybackOutcomes ==
    {"ok", "no_output_device", "open_failed", "stream_build_failed"}

\* start_audio_recording creates the container (WavWriter::create) once the
\* device is found, before the stream is built.
start_audio_recording_files(fs, file_path, outcome) ==
    IF outcome \in {"ok", "stream_build_failed"} THEN fs \cup {file_path} ELSE fs

\* hound::WavReader::open succeeds only on a container file that exists.
CanOpenWav(fs, file_path) == file_path \in fs /\ file_path.ext = "wav"

\* A variant of handle_start_recording that takes the old stream and sender
\* only when the new recording starts: a failure would keep them.
handle_start_recording_keeps_stream(st, file_path, outcome) ==
    IF outcome = "ok"
    THEN [st EXCEPT !.current_stream = Some([kind |-> "capture", file_path |-> file_path]),
                    !.current_writer_sender = Some(file_path),
                    !.last_log = "Started recording"]
    ELSE [st EXCEPT !.last_log = "Failed to start recording"]

\* handle_start_recording: the old stream and sender are taken and dropped
\* first, then start_audio_recording decides what the thread holds.
handle_start_recording(st, file_path, outcome) ==
    IF outcome = "ok"
    THEN [st EXCEPT !.current_stream = Some([kind |-> "capture", file_path |-> file_path]),
                    !.current_writer_sender = Some(file_path),
                    !.last_log = "Started recording"]
    ELSE [st EXCEPT !.current_stream = None,
                    !.current_writer_sender = None,
                    !.last_log = "Failed to start recording"]

handle_stop_recording(st) ==
    [st EXCEPT !.current_stream = None,
               !.current_writer_sender = None,
               !.last_log = "Stopped audio recording"]

handle_start_playback(st, file_path, outcome) ==
    IF outcome = "ok"
    THEN [st EXCEPT !.current_stream = Some([kind |-> "playback", file_path |-> file_path]),
                    !.current_writer_sender = None,
                    !.last_log = "Started playback"]
    ELSE [st EXCEPT !.current_stream = None,
                    !.current_writer_sender = None,
                    !.last_log = "Failed to start playback"]

handle_stop_playback(st) ==
    [st EXCEPT !.current_stream = None,
               !.current_writer_sender = None,
               !.last_log = "Stopped playback"]

\* audio_manager_thread: one turn of `while let Ok(command) = recv()`.
audio_manager_thread(m) ==
    /\ managers[m].status = "running"
    /\ managers[m].queue # <<>>
    /\ LET command == Head(managers[m].queue)
           st == [managers[m] EXCEPT !.queue = Tail(@)]
       IN  CASE command.kind = "StartRecording" ->
                  \E outcome \in StartRecordingOutcomes :
                     /\ managers' = [managers EXCEPT
                           ![m] = handle_start_recording(st, command.file_path, outcome)]
                     /\ files' = start_audio_recording_files(files, command.file_path, outcome)
             [] command.kind = "StopRecording" ->
                  /\ managers' = [managers EXCEPT ![m] = handle_stop_recording(st)]
                  /\ files' = files
             [] command.kind = "StartPlayback" ->
                  \E outcome \in StartPlaybackOutcomes :
                     /\ outcome = "ok" => CanOpenWav(files, command.file_path)
                     /\ managers' = [managers EXCEPT
                           ![m] = handle_start_playback(st, command.file_path, outcome)]
                     /\ files' = files
             [] command.kind = "StopPlayback" ->
                  /\ managers' = [managers EXCEPT ![m] = handle_stop_playback(st)]
                  /\ files' = files
    /\ UNCHANGED <<now, detector_vars, worker_vars, poisoned, state_vars, metadata_file, tray_menu, transcriptions,
                   next_uuid, caller_vars>>

\* A variant of audio_manager_thread_exit in which recv() fails as soon as the
\* Sender is dropped, whatever still waits in the queue.
audio_manager_thread_exit_on_disconnect(m) ==
    /\ managers[m].status = "running"
    /\ audio_recorder.command_sender # Some(m)
    /\ managers' = [managers EXCEPT ![m] =
          [@ EXCEPT !.status = "exited", !.current_stream = None,
                    !.current_writer_sender = None]]
    /\ UNCHANGED <<now, detector_vars, worker_vars, poisoned, state_vars, files, metadata_file,
                   tray_menu, transcriptions, next_uuid, caller_vars>>

\* recv() returns Err once the queue is empty and the only Sender (the one in
\* RecorderState.command_sender) has been dropped: the thread returns and its
\* locals, the stream and the writer sender, are dropped.
audio_manager_thread_exit(m) ==
    /\ managers[m].status = "running"
    /\ managers[m].queue = <<>>
    /\ audio_recorder.command_sender # Some(m)
    /\ managers' = [managers EXCEPT ![m] =
          [@ EXCEPT !.status = "exited", !.current_stream = None,
                    !.current_writer_sender = None]]
    /\ UNCHANGED <<now, detector_vars, worker_vars, poisoned, state_vars, files, metadata_file,
                   tray_menu, transcriptions, next_uuid, caller_vars>>

\* AppState::initialize_audio_system, called by run() at start-up, before any
\* command is served.
initialize_audio_system ==
    /\ tally.calls = 0
    /\ "audio_recorder" \notin poisoned
    /\ CanInitialize(audio_recorder, managers)
    /\ audio_recorder' = initialize(audio_recorder, managers).audio_recorder
    /\ managers' = initialize(audio_recorder, managers).managers
    /\ UNCHANGED <<now, detector_vars, worker_vars, poisoned, recording_state, playback_state,
                   recordings, files, metadata_file, tray_menu, transcriptions, next_uuid, caller_vars>>

----------------------------------------------------------------------------
(* audio_system.rs: the samples of one recording session *)

\* i16::MAX
I16_MAX == 32767

\* No start_audio_recording call has been made: there is no channel, no writer
\* thread and no container.  `senders` are the holders of a Sender<f32>: the
\* stream's callback ("stream") and the audio-manager thread ("manager");
\* `produced` are the samples the callback has been handed so far and `file`
\* the samples written to the container.
NoWriter ==
    [status |-> "unspawned", senders |-> {}, channel |-> <<>>, produced |-> <<>>,
     file |-> <<>>, finalized |-> 0, write_failed |-> FALSE]

\* (sample.clamp(-1.0, 1.0) * i16::MAX as f32) as i16, on a sample given in
\* halves: the cast cuts the fraction off towards zero.
sample_i16(sample) ==
    LET clamped == IF sample < -2 THEN -2 ELSE IF sample > 2 THEN 2 ELSE sample
        scaled == clamped * I16_MAX
    IN  IF scaled >= 0 THEN scaled \div 2 ELSE -((-scaled) \div 2)

\* A variant of recv that hands out the sample queued last.
recv_newest_first(channel) ==
    [sample |-> channel[Len(channel)], rest |-> SubSeq(channel, 1, Len(channel) - 1)]

\* receiver.recv() on a channel that holds a sample: the one queued first.
recv(channel) == [sample |-> Head(channel), rest |-> Tail(channel)]

\* start_audio_recording: once the container is created the writer thread is
\* spawned; when the stream cannot be built or played the function returns
\* Err and both senders are dropped with it.
start_audio_recording ==
    /\ writer.status = "unspawned"
    /\ \E outcome \in StartRecordingOutcomes :
          writer' =
             CASE outcome = "ok" ->
                    [writer EXCEPT !.status = "running", !.senders = {"stream", "manager"}]
               [] outcome = "stream_build_failed" ->
                    [writer EXCEPT !.status = "running"]
               [] OTHER -> [writer EXCEPT !.status = "not spawned"]
    /\ UNCHANGED <<now, detector_vars, poisoned, state_vars, pipeline_vars, metadata_file,
                   tray_menu, transcriptions, next_uuid, caller_vars, task_events,
                   lock_owner>>

\* The data callback of the input stream, one sample of its slice: the send
\* fails, and the sample is lost, once the writer thread has returned.
input_callback ==
    /\ "stream" \in writer.senders
    /\ Len(writer.produced) < MaxSamples
    /\ \E sample \in {-3, -1, 0, 3} :
          writer' = [writer EXCEPT
             !.produced = Append(@, sample),
             !.channel = IF writer.status = "returned" THEN @ ELSE Append(@, sample)]
    /\ UNCHANGED <<now, detector_vars, poisoned, state_vars, pipeline_vars, metadata_file,
                   tray_menu, transcriptions, next_uuid, caller_vars, task_events,
                   lock_owner>>

\* handle_stop_recording and the other handlers: `drop(stream)` ends the
\* callback and drops its sender, then `drop(sender)` drops the thread's own.
drop_stream_and_sender ==
    /\ writer.senders # {}
    /\ writer' = [writer EXCEPT !.senders =
          IF "stream" \in @ THEN @ \ {"stream"} ELSE @ \ {"manager"}]
    /\ UNCHANGED <<now, detector_vars, poisoned, state_vars, pipeline_vars, metadata_file,
                   tray_menu, transcriptions, next_uuid, caller_vars, task_events,
                   lock_owner>>

\* The writer thread, one turn of `while let Ok(sample) = receiver.recv()`:
\* recv returns Err when the channel is empty and every sender is dropped; a
\* failed write_sample breaks the loop.
writer_thread_recv ==
    /\ writer.status = "running"
    /\ IF writer.channel # <<>>
       THEN \E written \in BOOLEAN :
               writer' = [writer EXCEPT
                  !.channel = recv(writer.channel).rest,
                  !.file = IF written
                           THEN Append(@, sample_i16(recv(writer.channel).sample))
                           ELSE @,
                  !.write_failed = ~written,
                  !.status = IF written THEN @ ELSE "finalizing"]
       ELSE /\ writer.senders = {}
            /\ writer' = [writer EXCEPT !.status = "finalizing"]
    /\ UNCHANGED <<now, detector_vars, poisoned, state_vars, pipeline_vars, metadata_file,
                   tray_menu, transcriptions, next_uuid, caller_vars, task_events,
                   lock_owner>>

\* The writer thread after the loop: the WavWriter is taken and finalized,
\* the thread returns and the receiver is dropped with what it still holds.
writer_thread_finalize ==
    /\ writer.status = "finalizing"
    /\ writer' = [writer EXCEPT !.status = "returned", !.finalized = @ + 1,
                                !.channel = <<>>]
    /\ UNCHANGED <<now, detector_vars, poisoned, state_vars, pipeline_vars, metadata_file,
                   tray_menu, transcriptions, next_uuid, caller_vars, task_events,
                   lock_owner>>

----------------------------------------------------------------------------
(* services/recording_service.rs: the recording lifecycle *)

Callers == 1 .. NumCallers

Idle == [tag |-> "Idle"]

NoLocals == [op |-> "none"]

\* A command is taken up by the first thread that is free to serve it: the
\* commands served in one behaviour are bounded by the limit its initial
\* state sets.
Enter(t) ==
    /\ pc[t] = "idle"
    /\ \A k \in Callers : k < t => pc[k] # "idle"
    /\ tally.calls < tally.limit

\* The Result<_, String> a command hands back: Ok(..) or Err(..).
Returned(op, value) == [op |-> op, value |-> value]

\* A call returns `value` to its caller.
Return(t, op, value) ==
    /\ pc' = [pc EXCEPT ![t] = "idle"]
    /\ locals' = [locals EXCEPT ![t] = NoLocals]
    /\ result' = Returned(op, value)

\* tray/mod.rs setup_system_tray: the menu the tray starts with.
setup_system_tray == [label |-> "Start Recording", updates |-> 0]

\* tray/mod.rs update_tray_menu: the menu is built again with the label that
\* fits is_recording and handed to the tray; `updates` counts these calls.
update_tray_menu(tray, is_recording) ==
    [label |-> IF is_recording THEN "Stop Recording" ELSE "Start Recording",
     updates |-> tray.updates + 1]

\* The state start_recording writes under the recording_state lock.
start_recording_state(rs, start_time, file_path) ==
    [tag |-> "Recording", start_time |-> start_time, file_path |-> file_path]

\* start_recording: lines 90-104, the file name, the recordings directory
\* (get_recordings_directory fails when it cannot be made: Err, nothing
\* written) and the RecordingState.
start_recording_set_state(t) ==
    /\ Enter(t)
    /\ "recording_state" \notin poisoned
    /\ \E recordings_dir_ok \in BOOLEAN :
          IF recordings_dir_ok
          THEN /\ recording_state' =
                     start_recording_state(recording_state, now, recording_file_path(now))
               /\ pc' = [pc EXCEPT ![t] = "start_recording_audio"]
               /\ locals' = [locals EXCEPT ![t] =
                     [op |-> "start_recording", file_path |-> recording_file_path(now)]]
               /\ result' = result
          ELSE /\ result' = Returned("start_recording", "Err")
               /\ UNCHANGED <<recording_state, pc, locals>>
    /\ tally' = [tally EXCEPT !.calls = @ + 1]
    /\ UNCHANGED <<now, detector_vars, worker_vars, poisoned, playback_state, recordings,
                   audio_recorder, pipeline_vars, metadata_file, tray_menu, transcriptions, next_uuid>>

\* start_recording: lines 106-129, the block under the audio_recorder lock,
\* then the tray menu and the return of Ok.
start_recording_audio(t) ==
    /\ pc[t] = "start_recording_audio"
    /\ "audio_recorder" \notin poisoned
    /\ CanInitialize(audio_recorder, managers)
    /\ LET init == initialize(audio_recorder, managers)
           sender == unwrap(init.audio_recorder.command_sender)
       IN  /\ managers' = send(init.managers, sender,
                  [kind |-> "StartRecording", file_path |-> locals[t].file_path])
           /\ audio_recorder' = [init.audio_recorder EXCEPT
                  !.current_file_path = Some(locals[t].file_path),
                  !.is_recording = TRUE]
    /\ tray_menu' = update_tray_menu(tray_menu, TRUE)
    /\ Return(t, "start_recording", "Ok")
    /\ tally' = [tally EXCEPT !.starts = @ + 1]
    /\ UNCHANGED <<now, detector_vars, worker_vars, poisoned, recording_state, playback_state,
                   recordings, files, metadata_file, transcriptions, next_uuid>>

\* A variant of pause_transition that restarts the session clock at the pause.
pause_transition_rebased(rs, at) ==
    IF rs.tag = "Recording"
    THEN [ok |-> TRUE,
          state |-> [tag |-> "Paused", start_time |-> at,
                     elapsed |-> num_seconds(rs.start_time, at),
                     file_path |-> rs.file_path]]
    ELSE [ok |-> FALSE, state |-> rs]

\* The match of pause_recording on the RecordingState, at time `at`.
pause_transition(rs, at) ==
    IF rs.tag = "Recording"
    THEN [ok |-> TRUE,
          state |-> [tag |-> "Paused", start_time |-> rs.start_time,
                     elapsed |-> num_seconds(rs.start_time, at),
                     file_path |-> rs.file_path]]
    ELSE [ok |-> FALSE, state |-> rs]

\* A variant of resume_transition that also accepts a session that is not paused.
resume_transition_from_recording(rs) ==
    IF rs.tag \in {"Paused", "Recording"}
    THEN [ok |-> TRUE,
          state |-> [tag |-> "Recording", start_time |-> rs.start_time,
                     file_path |-> rs.file_path]]
    ELSE [ok |-> FALSE, state |-> rs]

\* The match of resume_recording on the RecordingState.
resume_transition(rs) ==
    IF rs.tag = "Paused"
    THEN [ok |-> TRUE,
          state |-> [tag |-> "Recording", start_time |-> rs.start_time,
                     file_path |-> rs.file_path]]
    ELSE [ok |-> FALSE, state |-> rs]

\* The match of stop_recording on the RecordingState.
stop_transition(rs) ==
    IF rs.tag \in {"Recording", "Paused"}
    THEN [ok |-> TRUE, state |-> Idle]
    ELSE [ok |-> FALSE, state |-> rs]

\* pause_recording: the whole call runs under the recording_state lock.
pause_recording(t) ==
    /\ Enter(t)
    /\ "recording_state" \notin poisoned
    /\ recording_state' = pause_transition(recording_state, now).state
    /\ result' = Returned("pause_recording",
          IF pause_transition(recording_state, now).ok THEN "Ok" ELSE "Err")
    /\ tally' = [tally EXCEPT !.calls = @ + 1]
    /\ UNCHANGED <<now, detector_vars, worker_vars, poisoned, playback_state, recordings,
                   audio_recorder, pipeline_vars, metadata_file, tray_menu, transcriptions, next_uuid,
                   pc, locals>>

\* resume_recording: the whole call runs under the recording_state lock.
resume_recording(t) ==
    /\ Enter(t)
    /\ "recording_state" \notin poisoned
    /\ recording_state' = resume_transition(recording_state).state
    /\ result' = Returned("resume_recording",
          IF resume_transition(recording_state).ok THEN "Ok" ELSE "Err")
    /\ tally' = [tally EXCEPT !.calls = @ + 1]
    /\ UNCHANGED <<now, detector_vars, worker_vars, poisoned, playback_state, recordings,
                   audio_recorder, pipeline_vars, metadata_file, tray_menu, transcriptions, next_uuid,
                   pc, locals>>

\* stop_recording: lines 165-177, the RecordingState taken and set to Idle, or
\* the early return of Err("Not recording").
stop_recording_take_state(t) ==
    /\ Enter(t)
    /\ "recording_state" \notin poisoned
    /\ recording_state' = stop_transition(recording_state).state
    /\ IF stop_transition(recording_state).ok
       THEN /\ pc' = [pc EXCEPT ![t] = "stop_recording_audio"]
            /\ locals' = [locals EXCEPT ![t] =
                  [op |-> "stop_recording",
                   start_time |-> recording_state.start_time,
                   file_path |-> recording_state.file_path]]
            /\ result' = result
       ELSE /\ result' = Returned("stop_recording", "Err")
            /\ UNCHANGED <<pc, locals>>
    /\ tally' = [tally EXCEPT !.calls = @ + 1]
    /\ UNCHANGED <<now, detector_vars, worker_vars, poisoned, playback_state, recordings,
                   audio_recorder, pipeline_vars, metadata_file, tray_menu, transcriptions, next_uuid>>

\* The block of stop_recording under the audio_recorder lock: with a sender,
\* StopRecording is sent and the recorder state is cleared, the sender and
\* the thread handle with it.
stop_recording_recorder(ar) ==
    IF is_some(ar.command_sender)
    THEN [ar EXCEPT !.is_recording = FALSE, !.current_file_path = None,
                    !.command_sender = None]
    ELSE ar

\* stop_recording: lines 179-193, the block under the audio_recorder lock and
\* the end time read when it is left.
stop_recording_audio(t) ==
    /\ pc[t] = "stop_recording_audio"
    /\ "audio_recorder" \notin poisoned
    /\ managers' =
          IF is_some(audio_recorder.command_sender)
          THEN send(managers, unwrap(audio_recorder.command_sender),
                    [kind |-> "StopRecording"])
          ELSE managers
    /\ audio_recorder' = stop_recording_recorder(audio_recorder)
    /\ locals' = [locals EXCEPT ![t] =
          [op |-> "stop_recording", start_time |-> locals[t].start_time,
           file_path |-> locals[t].file_path, end_time |-> now]]
    /\ pc' = [pc EXCEPT ![t] = "stop_recording_convert"]
    /\ UNCHANGED <<now, detector_vars, worker_vars, poisoned, recording_state, playback_state,
                   recordings, files, metadata_file, tray_menu, transcriptions, next_uuid, result, tally>>

\* What AudioConverter::convert_wav_to_opus can come to when the container
\* exists: the encoder's output is kept and the container removed ("ok") or
\* its removal fails and is only warned about ("ok_source_kept"); no FFmpeg
\* binary is found; the encoder fails; the encoder reports success without
\* an output file; the output is empty; the output is larger than the
\* container, where the unsigned subtraction of the sizes panics in a build
\* with overflow checks (and wraps, which is "ok", in one without).
ConvertOutcomes ==
    {"ok", "ok_source_kept", "ffmpeg_not_found", "ffmpeg_failed",
     "output_not_created", "empty_output", "size_underflow_panic"}

\* AudioConverter::convert_wav_to_opus: Err at once without the container or
\* without an FFmpeg binary; the encoder overwrites the output path; on Ok the
\* compact file exists; a failed or empty encoding removes the output file.
convert_wav_to_opus(fs, wav_path, outcome) ==
    LET opus_path == with_extension(wav_path, "opus")
    IN  IF wav_path \notin fs
        THEN [result |-> "Err", path |-> wav_path, files |-> fs]
        ELSE CASE outcome = "ok" ->
                    [result |-> "Ok", path |-> opus_path,
                     files |-> (fs \ {wav_path}) \cup {opus_path}]
               [] outcome = "ok_source_kept" ->
                    [result |-> "Ok", path |-> opus_path,
                     files |-> fs \cup {opus_path}]
               [] outcome = "size_underflow_panic" ->
                    [result |-> "Panic", path |-> wav_path,
                     files |-> fs \cup {opus_path}]
               [] outcome \in {"ffmpeg_not_found", "output_not_created"} ->
                    [result |-> "Err", path |-> wav_path, files |-> fs]
               [] OTHER ->
                    [result |-> "Err", path |-> wav_path,
                     files |-> fs \ {opus_path}]

\* stop_recording: lines 194-241, the duration, the wait for the container,
\* (lines 197-212: the file is looked at five times at most and the loop is
\* left whether or not it was found larger than the header), the conversion
\* and the Recording built from the file that is kept.  A panic in the
\* conversion ends the command without a reply.
stop_recording_convert(t) ==
    /\ pc[t] = "stop_recording_convert"
    /\ \E outcome \in ConvertOutcomes :
          LET converted == convert_wav_to_opus(files, locals[t].file_path, outcome)
          IN  /\ files' = converted.files
              /\ IF converted.result = "Panic"
                 THEN /\ Return(t, "stop_recording", "Panic")
                      /\ UNCHANGED next_uuid
                 ELSE /\ locals' = [locals EXCEPT ![t] =
                            [op |-> "stop_recording",
                             recording |->
                                [id |-> next_uuid,
                                 filename |-> converted.path,
                                 duration |-> format_duration(
                                    num_seconds(locals[t].start_time,
                                                locals[t].end_time)),
                                 timestamp |-> locals[t].end_time,
                                 status |-> "Local"]]]
                      /\ next_uuid' = next_uuid + 1
                      /\ pc' = [pc EXCEPT ![t] = "stop_recording_save"]
                      /\ result' = result
    /\ UNCHANGED <<now, detector_vars, worker_vars, poisoned, state_vars, managers, metadata_file,
                   tray_menu, transcriptions, tally>>

\* A variant of insert_recording without the cut.
insert_recording_unbounded(recs, recording) == <<recording>> \o recs

\* recordings.insert(0, recording) and the cut to the retention count.
insert_recording(recs, recording) ==
    truncate(<<recording>> \o recs, MAX_RECENT_RECORDINGS)

\* The task stop_recording spawns when the file kept is the compact one
\* (lines 257-298): one transcription task for the recording, left to run.
\* A variant of spawn_transcription that does not look at the file kept.
spawn_transcription_always(trs, recording) ==
    trs (+) SetToBag({recording.id})

spawn_transcription(trs, recording) ==
    IF recording.filename.ext = "opus"
    THEN trs (+) SetToBag({recording.id})
    ELSE trs

\* The transcription task of a recording, lines 263-276: AppConfig::load
\* fails and the task emits transcription_failed and returns, or the task
\* emits transcription_started and goes on to the request.  The task of a
\* recording is at its start while it has emitted nothing.
transcription_task_load(recording_id) ==
    /\ recording_id \in BagToSet(transcriptions)
    /\ \A i \in 1 .. Len(task_events) : task_events[i].recording_id # recording_id
    /\ \E config_loaded \in BOOLEAN :
          task_events' = Append(task_events,
             [event |-> IF config_loaded THEN "transcription_started"
                        ELSE "transcription_failed",
              recording_id |-> recording_id])
    /\ UNCHANGED <<now, detector_vars, poisoned, state_vars, pipeline_vars, metadata_file,
                   tray_menu, transcriptions, next_uuid, caller_vars, writer, lock_owner>>

\* The transcription task, lines 278-296: transcribe_audio_stream returns and
\* the task emits transcription_success or transcription_failed.
transcription_task_outcome(recording_id) ==
    /\ recording_id \in BagToSet(transcriptions)
    /\ {task_events[i].event : i \in {k \in 1 .. Len(task_events) :
                                         task_events[k].recording_id = recording_id}}
          = {"transcription_started"}
    /\ \E event \in {"transcription_success", "transcription_failed"} :
          task_events' = Append(task_events, [event |-> event, recording_id |-> recording_id])
    /\ UNCHANGED <<now, detector_vars, poisoned, state_vars, pipeline_vars, metadata_file,
                   tray_menu, transcriptions, next_uuid, caller_vars, writer, lock_owner>>

\* stop_recording: lines 243-303, the block under the recordings lock (a save
\* that fails is logged and the metadata file stays as it was), the spawn of
\* the transcription task, the tray menu and the return of the Recording.
stop_recording_save(t) ==
    /\ pc[t] = "stop_recording_save"
    /\ "recordings" \notin poisoned
    /\ recordings' = insert_recording(recordings, locals[t].recording)
    /\ \E saved \in BOOLEAN :
          metadata_file' = IF saved THEN save_recordings_metadata(recordings')
                           ELSE metadata_file
    /\ transcriptions' = spawn_transcription(transcriptions, locals[t].recording)
    /\ tray_menu' = update_tray_menu(tray_menu, FALSE)
    /\ Return(t, "stop_recording", "Ok")
    /\ tally' = [tally EXCEPT !.stops = @ + 1]
    /\ UNCHANGED <<now, detector_vars, worker_vars, poisoned, recording_state, playback_state,
                   audio_recorder, pipeline_vars, next_uuid>>

----------------------------------------------------------------------------
(* services/recording_service.rs: playback *)

\* recordings.iter().find(|r| r.id == recording_id)
find_recording(recs, recording_id) ==
    IF \E i \in 1 .. Len(recs) : recs[i].id = recording_id
    THEN Some(recs[CHOOSE i \in 1 .. Len(recs) :
                     /\ recs[i].id = recording_id
                     /\ \A j \in 1 .. (i - 1) : recs[j].id # recording_id])
    ELSE None

\* play_recording: lines 364-370, the recording looked up under the recordings
\* lock, or the return of Err("Recording not found").
play_recording_find(t, recording_id) ==
    /\ Enter(t)
    /\ "recordings" \notin poisoned
    /\ IF is_some(find_recording(recordings, recording_id))
       THEN /\ pc' = [pc EXCEPT ![t] = "play_recording_file"]
            /\ locals' = [locals EXCEPT ![t] =
                  [op |-> "play_recording",
                   recording |-> unwrap(find_recording(recordings, recording_id))]]
            /\ result' = result
       ELSE /\ result' = Returned("play_recording", "Err")
            /\ UNCHANGED <<pc, locals>>
    /\ tally' = [tally EXCEPT !.calls = @ + 1]
    /\ UNCHANGED <<now, detector_vars, worker_vars, poisoned, state_vars, pipeline_vars,
                   metadata_file, tray_menu, transcriptions, next_uuid>>

\* play_recording: lines 372-378, Err without the recordings directory and
\* Err("Recording file not found") without the file.
play_recording_file(t) ==
    /\ pc[t] = "play_recording_file"
    /\ \E recordings_dir_ok \in BOOLEAN :
          IF recordings_dir_ok /\ locals[t].recording.filename \in files
          THEN /\ pc' = [pc EXCEPT ![t] = "play_recording_state"]
               /\ UNCHANGED <<locals, result>>
          ELSE Return(t, "play_recording", "Err")
    /\ UNCHANGED <<now, detector_vars, worker_vars, poisoned, state_vars, pipeline_vars,
                   metadata_file, tray_menu, transcriptions, next_uuid, tally>>

\* play_recording: lines 380-388, under the playback_state lock.
play_recording_state(t) ==
    /\ pc[t] = "play_recording_state"
    /\ "playback_state" \notin poisoned
    /\ playback_state' =
          [tag |-> "Playing", recording_id |-> locals[t].recording.id,
           filename |-> locals[t].recording.filename, start_time |-> now]
    /\ pc' = [pc EXCEPT ![t] = "play_recording_audio"]
    /\ UNCHANGED <<now, detector_vars, worker_vars, poisoned, recording_state, recordings,
                   audio_recorder, pipeline_vars, metadata_file, tray_menu, transcriptions, next_uuid,
                   locals, result, tally>>

\* play_recording: lines 390-410, under the audio_recorder lock, and the return.
play_recording_audio(t) ==
    /\ pc[t] = "play_recording_audio"
    /\ "audio_recorder" \notin poisoned
    /\ CanInitialize(audio_recorder, managers)
    /\ LET init == initialize(audio_recorder, managers)
           sender == unwrap(init.audio_recorder.command_sender)
       IN  /\ managers' = send(init.managers, sender,
                  [kind |-> "StartPlayback",
                   file_path |-> locals[t].recording.filename])
           /\ audio_recorder' = init.audio_recorder
    /\ Return(t, "play_recording", "Ok")
    /\ UNCHANGED <<now, detector_vars, worker_vars, poisoned, recording_state, playback_state,
                   recordings, files, metadata_file, tray_menu, transcriptions, next_uuid, tally>>

\* stop_playback: lines 414-418, under the playback_state lock.
stop_playback_state(t) ==
    /\ Enter(t)
    /\ "playback_state" \notin poisoned
    /\ playback_state' = Idle
    /\ pc' = [pc EXCEPT ![t] = "stop_playback_audio"]
    /\ locals' = [locals EXCEPT ![t] = [op |-> "stop_playback"]]
    /\ tally' = [tally EXCEPT !.calls = @ + 1]
    /\ UNCHANGED <<now, detector_vars, worker_vars, poisoned, recording_state, recordings,
                   audio_recorder, pipeline_vars, metadata_file, tray_menu, transcriptions, next_uuid,
                   result>>

\* stop_playback: lines 420-430, under the audio_recorder lock, and the return.
stop_playback_audio(t) ==
    /\ pc[t] = "stop_playback_audio"
    /\ "audio_recorder" \notin poisoned
    /\ managers' =
          IF is_some(audio_recorder.command_sender)
          THEN send(managers, unwrap(audio_recorder.command_sender),
                    [kind |-> "StopPlayback"])
          ELSE managers
    /\ Return(t, "stop_playback", "Ok")
    /\ UNCHANGED <<now, detector_vars, worker_vars, poisoned, state_vars, files, metadata_file,
                   tray_menu, transcriptions, next_uuid, tally>>

----------------------------------------------------------------------------
(* services/recording_service.rs: the stored list *)

\* load_recordings_from_disk: line 313, load_recordings_metadata called with
\* no lock held; its error is returned with `?`.
load_recordings_from_disk_read(t) ==
    /\ Enter(t)
    /\ \E recordings_dir_ok \in BOOLEAN :
          LET loaded == load_recordings_metadata(metadata_file, files, recordings_dir_ok)
          IN  IF loaded.ok
              THEN /\ pc' = [pc EXCEPT ![t] = "load_recordings_from_disk_set"]
                   /\ locals' = [locals EXCEPT ![t] =
                         [op |-> "load_recordings_from_disk",
                          recordings |-> loaded.recordings]]
                   /\ result' = result
              ELSE /\ result' = Returned("load_recordings_from_disk", "Err")
                   /\ UNCHANGED <<pc, locals>>
    /\ tally' = [tally EXCEPT !.calls = @ + 1]
    /\ UNCHANGED <<now, detector_vars, worker_vars, poisoned, state_vars, pipeline_vars,
                   metadata_file, tray_menu, transcriptions, next_uuid>>

\* load_recordings_from_disk: lines 320-325, the list in memory replaced under
\* the recordings lock, and the return.
load_recordings_from_disk_set(t) ==
    /\ pc[t] = "load_recordings_from_disk_set"
    /\ "recordings" \notin poisoned
    /\ recordings' = locals[t].recordings
    /\ Return(t, "load_recordings_from_disk", "Ok")
    /\ UNCHANGED <<now, detector_vars, worker_vars, poisoned, recording_state, playback_state,
                   audio_recorder, pipeline_vars, metadata_file, tray_menu,
                   transcriptions, next_uuid, tally>>

\* delete_recording: lines 445-451, the recording looked up under the
\* recordings lock, or the return of Err("Recording not found").
delete_recording_find(t, recording_id) ==
    /\ Enter(t)
    /\ "recordings" \notin poisoned
    /\ IF is_some(find_recording(recordings, recording_id))
       THEN /\ pc' = [pc EXCEPT ![t] = "delete_recording_file"]
            /\ locals' = [locals EXCEPT ![t] =
                  [op |-> "delete_recording",
                   recording |-> unwrap(find_recording(recordings, recording_id))]]
            /\ result' = result
       ELSE /\ result' = Returned("delete_recording", "Err")
            /\ UNCHANGED <<pc, locals>>
    /\ tally' = [tally EXCEPT !.calls = @ + 1]
    /\ UNCHANGED <<now, detector_vars, worker_vars, poisoned, state_vars, pipeline_vars,
                   metadata_file, tray_menu, transcriptions, next_uuid>>

\* delete_recording: lines 453-460, Err without the recordings directory; the
\* file, when there is one, is removed, or Err when the removal fails.
delete_recording_file(t) ==
    /\ pc[t] = "delete_recording_file"
    /\ \E recordings_dir_ok \in BOOLEAN, removed \in BOOLEAN :
          IF ~recordings_dir_ok
          THEN /\ Return(t, "delete_recording", "Err")
               /\ UNCHANGED files
          ELSE IF locals[t].recording.filename \notin files
          THEN /\ pc' = [pc EXCEPT ![t] = "delete_recording_retain"]
               /\ UNCHANGED <<files, locals, result>>
          ELSE IF removed
          THEN /\ files' = files \ {locals[t].recording.filename}
               /\ pc' = [pc EXCEPT ![t] = "delete_recording_retain"]
               /\ UNCHANGED <<locals, result>>
          ELSE /\ Return(t, "delete_recording", "Err")
               /\ UNCHANGED files
    /\ UNCHANGED <<now, detector_vars, worker_vars, poisoned, state_vars, managers,
                   metadata_file, tray_menu, transcriptions, next_uuid, tally>>

\* recordings.retain(|r| r.id != recording_id)
retain_recordings(recs, recording_id) ==
    LET kept(recording) == recording.id # recording_id
    IN  SelectSeq(recs, kept)

\* delete_recording: lines 462-471, under the recordings lock; a save that
\* fails is logged and the metadata file stays as it was.
delete_recording_retain(t) ==
    /\ pc[t] = "delete_recording_retain"
    /\ "recordings" \notin poisoned
    /\ recordings' = retain_recordings(recordings, locals[t].recording.id)
    /\ \E saved \in BOOLEAN :
          metadata_file' = IF saved THEN save_recordings_metadata(recordings')
                           ELSE metadata_file
    /\ pc' = [pc EXCEPT ![t] = "delete_recording_playback"]
    /\ UNCHANGED <<now, detector_vars, worker_vars, poisoned, recording_state, playback_state,
                   audio_recorder, pipeline_vars, tray_menu, transcriptions,
                   next_uuid, locals, result, tally>>

\* What delete_recording hands back: Ok(()) or Err(..), told apart here by the
\* Recording the call found for its id.
ReturnedDelete(recording, value) ==
    [op |-> "delete_recording", value |-> value, recording |-> recording]

\* delete_recording: lines 473-488, the playback state looked at under its
\* lock; when this recording is not the one being played the call returns Ok.
delete_recording_playback(t) ==
    /\ pc[t] = "delete_recording_playback"
    /\ "playback_state" \notin poisoned
    /\ IF /\ playback_state.tag = "Playing"
          /\ playback_state.recording_id = locals[t].recording.id
       THEN /\ pc' = [pc EXCEPT ![t] = "delete_recording_stop_state"]
            /\ UNCHANGED <<locals, result>>
       ELSE /\ pc' = [pc EXCEPT ![t] = "idle"]
            /\ locals' = [locals EXCEPT ![t] = NoLocals]
            /\ result' = ReturnedDelete(locals[t].recording, "Ok")
    /\ UNCHANGED <<now, detector_vars, worker_vars, poisoned, state_vars, pipeline_vars,
                   metadata_file, tray_menu, transcriptions, next_uuid, tally>>

\* delete_recording: line 484, stop_playback's block under the playback_state
\* lock (lines 414-418).
delete_recording_stop_state(t) ==
    /\ pc[t] = "delete_recording_stop_state"
    /\ "playback_state" \notin poisoned
    /\ playback_state' = Idle
    /\ pc' = [pc EXCEPT ![t] = "delete_recording_stop_audio"]
    /\ UNCHANGED <<now, detector_vars, worker_vars, poisoned, recording_state, recordings,
                   audio_recorder, pipeline_vars, metadata_file, tray_menu,
                   transcriptions, next_uuid, locals, result, tally>>

\* delete_recording: line 484, stop_playback's block under the audio_recorder
\* lock (lines 420-430), and the return of delete_recording.
delete_recording_stop_audio(t) ==
    /\ pc[t] = "delete_recording_stop_audio"
    /\ "audio_recorder" \notin poisoned
    /\ managers' =
          IF is_some(audio_recorder.command_sender)
          THEN send(managers, unwrap(audio_recorder.command_sender),
                    [kind |-> "StopPlayback"])
          ELSE managers
    /\ pc' = [pc EXCEPT ![t] = "idle"]
    /\ locals' = [locals EXCEPT ![t] = NoLocals]
    /\ result' = ReturnedDelete(locals[t].recording, "Ok")
    /\ UNCHANGED <<now, detector_vars, worker_vars, poisoned, state_vars, files, metadata_file,
                   tray_menu, transcriptions, next_uuid, tally>>

----------------------------------------------------------------------------
(* The mutexes: which guards each operation takes and drops, in order *)

\* A variant of lock_steps in which delete_recording keeps the guard of
\* playback_state while it calls stop_playback.
lock_steps_delete_keeps_guard ==
    LET lock(m) == <<[do |-> "lock", mutex |-> m]>>
        unlock(m) == <<[do |-> "unlock", mutex |-> m]>>
        block(m) == lock(m) \o unlock(m)
        stop_playback == block("playback_state") \o block("audio_recorder")
    IN  [delete_recording |->
             block("recordings") \o block("recordings") \o lock("playback_state")
             \o stop_playback \o unlock("playback_state"),
         stop_playback |-> stop_playback]

\* The lock() calls of every operation and the ends of the blocks that hold
\* the guards, in program order.  toggle_recording goes on into
\* start_recording or stop_recording, delete_recording into stop_playback when
\* the recording is the one being played; poll_loop is one pass of the
\* detector's loop.
lock_steps ==
    LET block(m) == <<[do |-> "lock", mutex |-> m], [do |-> "unlock", mutex |-> m]>>
        start_recording == block("recording_state") \o block("audio_recorder")
        stop_recording ==
            block("recording_state") \o block("audio_recorder") \o block("recordings")
        stop_playback == block("playback_state") \o block("audio_recorder")
    IN  [start_recording |-> start_recording,
         pause_recording |-> block("recording_state"),
         stop_recording |-> stop_recording,
         toggle_recording_start |-> block("recording_state") \o start_recording,
         toggle_recording_stop |-> block("recording_state") \o stop_recording,
         load_recordings_from_disk |-> block("recordings"),
         play_recording |->
             block("recordings") \o block("playback_state") \o block("audio_recorder"),
         stop_playback |-> stop_playback,
         delete_recording |->
             block("recordings") \o block("recordings") \o block("playback_state")
             \o stop_playback,
         start_monitoring |-> block("monitoring"),
         get_state |-> block("state"),
         poll_loop |-> block("monitoring") \o block("state")]

\* A thread enters one of the operations.
call(t) ==
    /\ Enter(t)
    /\ \E op \in DOMAIN lock_steps :
          /\ pc' = [pc EXCEPT ![t] = "lock_step"]
          /\ locals' = [locals EXCEPT ![t] = [op |-> op, steps |-> lock_steps[op]]]
    /\ tally' = [tally EXCEPT !.calls = @ + 1]
    /\ UNCHANGED <<now, detector_vars, poisoned, state_vars, pipeline_vars, metadata_file,
                   tray_menu, transcriptions, next_uuid, result, writer, task_events,
                   lock_owner>>

\* The next lock step of a thread.  mutex.lock() waits until the mutex is
\* free, also when the waiting thread is its owner; a guard is dropped at the
\* end of its block, where the operation may also return, and a return drops
\* every guard the thread still holds.
lock_step(t) ==
    /\ pc[t] = "lock_step"
    /\ LET step == Head(locals[t].steps)
           rest == Tail(locals[t].steps)
       IN  IF step.do = "lock"
           THEN /\ lock_owner[step.mutex] = None
                /\ lock_owner' = [lock_owner EXCEPT ![step.mutex] = Some(t)]
                /\ locals' = [locals EXCEPT ![t].steps = rest]
                /\ UNCHANGED <<pc, result>>
           ELSE \E returns \in BOOLEAN :
                   /\ rest = <<>> => returns
                   /\ IF returns
                      THEN /\ lock_owner' =
                                 [m \in Mutexes |-> IF lock_owner[m] = Some(t)
                                                    THEN None ELSE lock_owner[m]]
                           /\ Return(t, "operation", "returned")
                      ELSE /\ lock_owner' = [lock_owner EXCEPT ![step.mutex] = None]
                           /\ locals' = [locals EXCEPT ![t].steps = rest]
                           /\ UNCHANGED <<pc, result>>
    /\ UNCHANGED <<now, detector_vars, poisoned, state_vars, pipeline_vars, metadata_file,
                   tray_menu, transcriptions, next_uuid, tally, writer, task_events>>

----------------------------------------------------------------------------
(* Initial state and specifications *)

Init ==
    /\ now = 0
    /\ monitoring = FALSE
    /\ meeting_state = MeetingDetector_new_state
    /\ loops = [l \in LoopIds |-> [pc |-> "unspawned", stop_seen |-> FALSE]]
    /\ snapshot = None
    /\ detector_result = "None"
    /\ poisoned = {}
    /\ notifier = notifier_thread_new
    /\ emitted = <<>>
    /\ probes = NoProbes
    /\ detected = NotRun
    /\ writer = NoWriter
    /\ task_events = <<>>
    /\ lock_owner = [mutex \in Mutexes |-> None]
    /\ recording_state = Idle
    /\ playback_state = Idle
    /\ recordings = <<>>
    /\ audio_recorder = RecorderState_new
    /\ managers = [m \in ManagerIds |-> NoManager]
    /\ files = {}
    /\ metadata_file = None
    /\ tray_menu = setup_system_tray
    /\ transcriptions = EmptyBag
    /\ next_uuid = 1
    /\ pc = [t \in Callers |-> "idle"]
    /\ locals = [t \in Callers |-> NoLocals]
    /\ result = Returned("none", "None")
    /\ tally = [calls |-> 0, starts |-> 0, stops |-> 0, limit |-> MaxCalls]

NextDetector ==
    \/ Tick
    \/ start_monitoring
    \/ stop_monitoring
    \/ get_state
    \/ \E l \in LoopIds : poll_loop_check(l)
    \/ \E l \in LoopIds : poll_loop_tick(l)

SpecDetector == Init /\ [][NextDetector]_vars

\* The detector and the thread that watches its MeetingState.
NextNotifier ==
    \/ Tick
    \/ start_monitoring
    \/ stop_monitoring
    \/ \E l \in LoopIds : poll_loop_check(l)
    \/ \E l \in LoopIds : poll_loop_tick(l)
    \/ notifier_thread_tick

SpecNotifier == Init /\ [][NextNotifier]_vars

----------------------------------------------------------------------------
(* The classifier on its own: one call on a snapshot of the probes *)

\* The snapshots of the probes a pass is made on: those in which every kind of
\* probe can fail, miss or match, and those in which only Chrome reports, with
\* any tabs.
ProbeSnapshots ==
    LET Tabs == UNION {[1 .. k -> TabUrls] : k \in 0 .. MaxTabs}
        PrioritySnapshots ==
            [ps : {None, Some({}), Some(ProcessNames)} \cup {Some({n}) : n \in ProcessNames},
             zoom_meeting_window : BOOLEAN, slack_huddle_active : BOOLEAN,
             teams_call_active : BOOLEAN, discord_voice_active : BOOLEAN,
             chrome : {None, Some(<<>>), Some(<<TAB_URLS.zoom>>)},
             dia_microphone_usage : BOOLEAN,
             dia_tabs : {<<>>, <<TAB_URLS.room>>},
             safari : {None, Some(<<>>), Some(<<TAB_URLS.teams>>)},
             microphone : {None, Some(FALSE), Some(TRUE)}]
        TabSnapshots == {[NoProbes EXCEPT !.chrome = Some(tabs)] : tabs \in Tabs}
    IN  PrioritySnapshots \cup TabSnapshots

InitClassifier ==
    /\ now = 0
    /\ monitoring = FALSE
    /\ meeting_state = MeetingDetector_new_state
    /\ loops = [l \in LoopIds |-> [pc |-> "unspawned", stop_seen |-> FALSE]]
    /\ snapshot = None
    /\ detector_result = "None"
    /\ poisoned = {}
    /\ notifier = notifier_thread_new
    /\ emitted = <<>>
    /\ probes \in ProbeSnapshots
    /\ detected = NotRun
    /\ writer = NoWriter
    /\ task_events = <<>>
    /\ lock_owner = [mutex \in Mutexes |-> None]
    /\ recording_state = Idle
    /\ playback_state = Idle
    /\ recordings = <<>>
    /\ audio_recorder = RecorderState_new
    /\ managers = [m \in ManagerIds |-> NoManager]
    /\ files = {}
    /\ metadata_file = None
    /\ tray_menu = setup_system_tray
    /\ transcriptions = EmptyBag
    /\ next_uuid = 1
    /\ pc = [t \in Callers |-> "idle"]
    /\ locals = [t \in Callers |-> NoLocals]
    /\ result = Returned("none", "None")
    /\ tally = [calls |-> 0, starts |-> 0, stops |-> 0, limit |-> MaxCalls]

NextClassifier ==
    \/ detect_meeting_apps_call
    \/ check_chrome_urls_call
    \/ is_google_meet_room_call

SpecClassifier == InitClassifier /\ [][NextClassifier]_vars

\* The rules of detect_meeting_apps laid out as one list, first to last: each
\* entry tells whether the rule holds on the snapshot and what it reports.
\* `dia` is the list of entries for Dia.
rule_list(p, dia) ==
    LET url_rules(tabs) ==
            LET urls == IF tabs = None THEN <<>> ELSE all_urls(unwrap(tabs))
            IN  <<[holds |-> is_google_meet_room(urls), app |-> "GoogleMeet"],
                  [holds |-> contains(urls, URL_PATTERNS.zoom_join) \/ contains(urls, URL_PATTERNS.zoom_web_client),
                   app |-> "Zoom"],
                  [holds |-> contains(urls, URL_PATTERNS.teams_join) \/ contains(urls, URL_PATTERNS.teams_live),
                   app |-> "MicrosoftTeams"],
                  [holds |-> /\ contains(urls, URL_PATTERNS.slack_app)
                             /\ contains(urls, URL_PATTERNS.huddle_path) \/ contains(urls, URL_PATTERNS.huddle),
                   app |-> "SlackHuddle"]>>
        processes == IF p.ps = None THEN {} ELSE unwrap(p.ps)
    IN  <<[holds |-> \/ "CptHost" \in processes
                     \/ "zoom.us" \in processes /\ p.zoom_meeting_window,
           app |-> "Zoom"],
          [holds |-> "Slack" \in processes /\ p.slack_huddle_active, app |-> "SlackHuddle"],
          [holds |-> "Microsoft Teams" \in processes /\ p.teams_call_active,
           app |-> "MicrosoftTeams"],
          [holds |-> "Discord" \in processes /\ p.discord_voice_active, app |-> "Discord"]>>
        \o url_rules(p.chrome)
        \o (IF dia = "url rules" THEN url_rules(Some(p.dia_tabs))
            ELSE <<[holds |-> p.dia_microphone_usage, app |-> "Unknown"]>>)
        \o url_rules(p.safari)
        \o <<[holds |-> p.microphone = Some(TRUE), app |-> "Zoom"]>>

\* What the first rule of a list that holds reports, None when none holds.
first_match(rule_seq) ==
    LET holding == {i \in 1 .. Len(rule_seq) : rule_seq[i].holds}
    IN  IF holding = {} THEN None
        ELSE Some(rule_seq[CHOOSE i \in holding : \A j \in holding : i <= j].app)

\* The detector with the panics a lock holder can die of.
NextPoison ==
    \/ NextDetector
    \/ start_monitoring_spawn_panics
    \/ \E l \in LoopIds : poll_loop_tick_println_panics(l)
    \/ start_monitoring_poisoned
    \/ stop_monitoring_poisoned
    \/ get_state_poisoned
    \/ \E l \in LoopIds : poll_loop_check_poisoned(l)
    \/ \E l \in LoopIds : poll_loop_tick_poisoned(l)

SpecPoison == Init /\ [][NextPoison]_vars

\* The ids a caller can ask for: every id given so far, and one never given.
RecordingIds == 0 .. (next_uuid - 1)

Next ==
    \/ Tick
    \/ initialize_audio_system
    \/ \E m \in ManagerIds : audio_manager_thread(m)
    \/ \E m \in ManagerIds : audio_manager_thread_exit(m)
    \/ \E t \in Callers : start_recording_set_state(t)
    \/ \E t \in Callers : start_recording_audio(t)
    \/ \E t \in Callers : pause_recording(t)
    \/ \E t \in Callers : resume_recording(t)
    \/ \E t \in Callers : stop_recording_take_state(t)
    \/ \E t \in Callers : stop_recording_audio(t)
    \/ \E t \in Callers : stop_recording_convert(t)
    \/ \E t \in Callers : stop_recording_save(t)
    \/ \E t \in Callers : \E recording_id \in RecordingIds :
          play_recording_find(t, recording_id)
    \/ \E t \in Callers : play_recording_file(t)
    \/ \E t \in Callers : play_recording_state(t)
    \/ \E t \in Callers : play_recording_audio(t)
    \/ \E t \in Callers : stop_playback_state(t)
    \/ \E t \in Callers : stop_playback_audio(t)

Spec == Init /\ [][Next]_vars

----------------------------------------------------------------------------
(* The recording commands with one more call than Spec allows, for the
   interleavings that take two recordings *)

InitOverlap ==
    /\ now = 0
    /\ monitoring = FALSE
    /\ meeting_state = MeetingDetector_new_state
    /\ loops = [l \in LoopIds |-> [pc |-> "unspawned", stop_seen |-> FALSE]]
    /\ snapshot = None
    /\ detector_result = "None"
    /\ poisoned = {}
    /\ notifier = notifier_thread_new
    /\ emitted = <<>>
    /\ probes = NoProbes
    /\ detected = NotRun
    /\ writer = NoWriter
    /\ task_events = <<>>
    /\ lock_owner = [mutex \in Mutexes |-> None]
    /\ recording_state = Idle
    /\ playback_state = Idle
    /\ recordings = <<>>
    /\ audio_recorder = RecorderState_new
    /\ managers = [m \in ManagerIds |-> NoManager]
    /\ files = {}
    /\ metadata_file = None
    /\ tray_menu = setup_system_tray
    /\ transcriptions = EmptyBag
    /\ next_uuid = 1
    /\ pc = [t \in Callers |-> "idle"]
    /\ locals = [t \in Callers |-> NoLocals]
    /\ result = Returned("none", "None")
    /\ tally = [calls |-> 0, starts |-> 0, stops |-> 0, limit |-> MaxCalls + 1]

NextOverlap ==
    \/ Tick
    \/ \E m \in ManagerIds : audio_manager_thread(m)
    \/ \E t \in Callers : start_recording_set_state(t)
    \/ \E t \in Callers : start_recording_audio(t)
    \/ \E t \in Callers : stop_recording_take_state(t)
    \/ \E t \in Callers : stop_recording_audio(t)
    \/ \E t \in Callers : stop_recording_convert(t)
    \/ \E t \in Callers : stop_recording_save(t)

SpecOverlap == InitOverlap /\ [][NextOverlap]_vars

----------------------------------------------------------------------------
(* The recording commands with pauses and with sessions that last minutes *)

\* The seconds that pass at once between two steps.
SleepSeconds == {65}

\* The clock moves on by a number of seconds.
Elapse ==
    /\ \E seconds \in SleepSeconds :
          /\ now + seconds * TicksPerSecond <= MaxElapsed * TicksPerSecond
          /\ now' = now + seconds * TicksPerSecond
    /\ UNCHANGED <<detector_vars, poisoned, notifier_vars,
                   classifier_vars, recorder_vars>>

NextDuration ==
    \/ Elapse
    \/ \E m \in ManagerIds : audio_manager_thread(m)
    \/ \E t \in Callers : start_recording_set_state(t)
    \/ \E t \in Callers : start_recording_audio(t)
    \/ \E t \in Callers : pause_recording(t)
    \/ \E t \in Callers : resume_recording(t)
    \/ \E t \in Callers : stop_recording_take_state(t)
    \/ \E t \in Callers : stop_recording_audio(t)
    \/ \E t \in Callers : stop_recording_convert(t)
    \/ \E t \in Callers : stop_recording_save(t)

SpecDuration == Init /\ [][NextDuration]_vars

----------------------------------------------------------------------------
(* The audio-manager threads under the recording commands, with the threads
   scheduled fairly: a thread that has a command to take is not kept from
   taking it forever *)

InitPipeline ==
    /\ now = 0
    /\ monitoring = FALSE
    /\ meeting_state = MeetingDetector_new_state
    /\ loops = [l \in LoopIds |-> [pc |-> "unspawned", stop_seen |-> FALSE]]
    /\ snapshot = None
    /\ detector_result = "None"
    /\ poisoned = {}
    /\ notifier = notifier_thread_new
    /\ emitted = <<>>
    /\ probes = NoProbes
    /\ detected = NotRun
    /\ writer = NoWriter
    /\ task_events = <<>>
    /\ lock_owner = [mutex \in Mutexes |-> None]
    /\ recording_state = Idle
    /\ playback_state = Idle
    /\ recordings = <<>>
    /\ audio_recorder = RecorderState_new
    /\ managers = [m \in ManagerIds |-> NoManager]
    /\ files = {}
    /\ metadata_file = None
    /\ tray_menu = setup_system_tray
    /\ transcriptions = EmptyBag
    /\ next_uuid = 1
    /\ pc = [t \in Callers |-> "idle"]
    /\ locals = [t \in Callers |-> NoLocals]
    /\ result = Returned("none", "None")
    /\ tally = [calls |-> 0, starts |-> 0, stops |-> 0, limit |-> MaxCommands]

NextPipeline ==
    \/ Tick
    \/ \E m \in ManagerIds : audio_manager_thread(m)
    \/ \E m \in ManagerIds : audio_manager_thread_exit(m)
    \/ \E t \in Callers : start_recording_set_state(t)
    \/ \E t \in Callers : start_recording_audio(t)
    \/ \E t \in Callers : stop_recording_take_state(t)
    \/ \E t \in Callers : stop_recording_audio(t)
    \/ \E t \in Callers : stop_recording_convert(t)
    \/ \E t \in Callers : stop_recording_save(t)

SpecPipeline ==
    /\ InitPipeline
    /\ [][NextPipeline]_vars
    /\ \A m \in ManagerIds : WF_vars(audio_manager_thread(m))

----------------------------------------------------------------------------
(* The recording commands and the transcription tasks they leave behind *)

NextTranscription ==
    \/ NextPipeline
    \/ \E recording_id \in RecordingIds : transcription_task_load(recording_id)
    \/ \E recording_id \in RecordingIds : transcription_task_outcome(recording_id)

SpecTranscription == InitPipeline /\ [][NextTranscription]_vars

----------------------------------------------------------------------------
(* One recording session: the callback, the sample channel and the writer
   thread, which runs whenever it can *)

NextWriter ==
    \/ start_audio_recording
    \/ input_callback
    \/ drop_stream_and_sender
    \/ writer_thread_recv
    \/ writer_thread_finalize

SpecWriter ==
    /\ Init
    /\ [][NextWriter]_vars
    /\ WF_vars(writer_thread_recv)
    /\ WF_vars(writer_thread_finalize)

----------------------------------------------------------------------------
(* The operations as the guards they take and drop; a thread that can take
   its next step does take it *)

NextLocks ==
    \/ \E t \in Callers : call(t)
    \/ \E t \in Callers : lock_step(t)

SpecLocks ==
    /\ InitPipeline
    /\ [][NextLocks]_vars
    /\ \A t \in Callers : WF_vars(lock_step(t))

----------------------------------------------------------------------------
(* The application started over the files an earlier run left behind *)

\* The i-th newest Recording of the earlier run: ids and times before any of
\* this run's.
StoredRecording(i) ==
    [id |-> 0 - i,
     filename |-> Path(0 - i, "opus"),
     duration |-> format_duration(i),
     timestamp |-> 0 - i,
     status |-> "Local"]

\* The list the earlier run saved last: full, newest first.
StoredRecordings == [i \in 1 .. MAX_RECENT_RECORDINGS |-> StoredRecording(i)]

StoredFiles == {StoredRecordings[i].filename : i \in 1 .. MAX_RECENT_RECORDINGS}

\* The metadata file holds the earlier run's list and every audio file of it
\* is on disk.
InitStore ==
    /\ now = 0
    /\ monitoring = FALSE
    /\ meeting_state = MeetingDetector_new_state
    /\ loops = [l \in LoopIds |-> [pc |-> "unspawned", stop_seen |-> FALSE]]
    /\ snapshot = None
    /\ detector_result = "None"
    /\ poisoned = {}
    /\ notifier = notifier_thread_new
    /\ emitted = <<>>
    /\ probes = NoProbes
    /\ detected = NotRun
    /\ writer = NoWriter
    /\ task_events = <<>>
    /\ lock_owner = [mutex \in Mutexes |-> None]
    /\ recording_state = Idle
    /\ playback_state = Idle
    /\ recordings = <<>>
    /\ audio_recorder = RecorderState_new
    /\ managers = [m \in ManagerIds |-> NoManager]
    /\ files = StoredFiles
    /\ metadata_file = save_recordings_metadata(StoredRecordings)
    /\ tray_menu = setup_system_tray
    /\ transcriptions = EmptyBag
    /\ next_uuid = 1
    /\ pc = [t \in Callers |-> "idle"]
    /\ locals = [t \in Callers |-> NoLocals]
    /\ result = Returned("none", "None")
    /\ tally = [calls |-> 0, starts |-> 0, stops |-> 0, limit |-> MaxCalls]

\* The ids a caller can ask for: those of the list in memory, and one that
\* no recording has.
ListedIds == {recordings[i].id : i \in 1 .. Len(recordings)} \cup {0}

NextStore ==
    \/ Tick
    \/ \E m \in ManagerIds : audio_manager_thread(m)
    \/ \E t \in Callers : start_recording_set_state(t)
    \/ \E t \in Callers : start_recording_audio(t)
    \/ \E t \in Callers : stop_recording_take_state(t)
    \/ \E t \in Callers : stop_recording_audio(t)
    \/ \E t \in Callers : stop_recording_convert(t)
    \/ \E t \in Callers : stop_recording_save(t)
    \/ \E t \in Callers : load_recordings_from_disk_read(t)
    \/ \E t \in Callers : load_recordings_from_disk_set(t)
    \/ \E t \in Callers : \E recording_id \in ListedIds :
          delete_recording_find(t, recording_id)
    \/ \E t \in Callers : delete_recording_file(t)
    \/ \E t \in Callers : delete_recording_retain(t)
    \/ \E t \in Callers : delete_recording_playback(t)

SpecStore == InitStore /\ [][NextStore]_vars

\* Deleting and playing the recordings of the earlier run.
NextDelete ==
    \/ Tick
    \/ \E m \in ManagerIds : audio_manager_thread(m)
    \/ \E t \in Callers : load_recordings_from_disk_read(t)
    \/ \E t \in Callers : load_recordings_from_disk_set(t)
    \/ \E t \in Callers : \E recording_id \in ListedIds :
          delete_recording_find(t, recording_id)
    \/ \E t \in Callers : delete_recording_file(t)
    \/ \E t \in Callers : delete_recording_retain(t)
    \/ \E t \in Callers : delete_recording_playback(t)
    \/ \E t \in Callers : delete_recording_stop_state(t)
    \/ \E t \in Callers : delete_recording_stop_audio(t)
    \/ \E t \in Callers : \E recording_id \in ListedIds :
          play_recording_find(t, recording_id)
    \/ \E t \in Callers : play_recording_file(t)
    \/ \E t \in Callers : play_recording_state(t)
    \/ \E t \in Callers : play_recording_audio(t)

SpecDelete == InitStore /\ [][NextDelete]_vars

----------------------------------------------------------------------------
(* save_recordings_metadata and load_recordings_metadata applied to lists and
   files of every shape *)

\* A list of n Recordings with the given timestamps, each with a file name
\* and an id of its own and the three statuses in turn.
RecordingList(stamps) ==
    [i \in 1 .. Len(stamps) |->
        [id |-> 0 - i,
         filename |-> Path(0 - i, IF i % 2 = 0 THEN "wav" ELSE "opus"),
         duration |-> format_duration(i),
         timestamp |-> stamps[i],
         status |-> CASE i % 3 = 1 -> "Local"
                      [] i % 3 = 2 -> "Uploaded"
                      [] OTHER -> "Failed"]]

RecordingLists ==
    {RecordingList(stamps) :
        stamps \in UNION {[1 .. n -> 0 .. MaxTime] : n \in 0 .. MaxListLen}}

\* What can be found in the place of the metadata file before anything is
\* saved: nothing, or a text that is empty, only whitespace, or not the JSON
\* of a list of Recordings.
MetadataTexts == {"empty", "whitespace", "malformed"}

InitMetadata ==
    /\ now = 0
    /\ monitoring = FALSE
    /\ meeting_state = MeetingDetector_new_state
    /\ loops = [l \in LoopIds |-> [pc |-> "unspawned", stop_seen |-> FALSE]]
    /\ snapshot = None
    /\ detector_result = "None"
    /\ poisoned = {}
    /\ notifier = notifier_thread_new
    /\ emitted = <<>>
    /\ probes = NoProbes
    /\ detected = NotRun
    /\ writer = NoWriter
    /\ task_events = <<>>
    /\ lock_owner = [mutex \in Mutexes |-> None]
    /\ recording_state = Idle
    /\ playback_state = Idle
    /\ recordings \in RecordingLists
    /\ audio_recorder = RecorderState_new
    /\ managers = [m \in ManagerIds |-> NoManager]
    /\ \E removed \in {None} \cup {Some(recordings[i].filename) : i \in 1 .. Len(recordings)} :
          files = {recordings[i].filename : i \in 1 .. Len(recordings)} \ removed
    /\ metadata_file \in {None} \cup {Some([text |-> text]) : text \in MetadataTexts}
    /\ tray_menu = setup_system_tray
    /\ transcriptions = EmptyBag
    /\ next_uuid = 1
    /\ pc = [t \in Callers |-> "idle"]
    /\ locals = [t \in Callers |-> NoLocals]
    /\ result = Returned("none", "None")
    /\ tally = [calls |-> 0, starts |-> 0, stops |-> 0, limit |-> MaxLoads]

\* save_recordings_metadata(app_handle, recordings) called with the list in
\* memory: the file is written, or the error of the write is returned and the
\* file stays as it was.
save_recordings_metadata_call ==
    /\ \A t \in Callers : pc[t] = "idle"
    /\ \E written \in BOOLEAN :
          IF written
          THEN /\ metadata_file' = save_recordings_metadata(recordings)
               /\ result' = Returned("save_recordings_metadata", "Ok")
          ELSE /\ metadata_file' = metadata_file
               /\ result' = Returned("save_recordings_metadata", "Err")
    /\ UNCHANGED <<now, detector_vars, worker_vars, poisoned, state_vars, pipeline_vars,
                   tray_menu, transcriptions, next_uuid, pc, locals, tally>>

NextMetadata ==
    \/ save_recordings_metadata_call
    \/ \E t \in Callers : load_recordings_from_disk_read(t)
    \/ \E t \in Callers : load_recordings_from_disk_set(t)

SpecMetadata == InitMetadata /\ [][NextMetadata]_vars

----------------------------------------------------------------------------
(* Properties of the recording lifecycle, checked under Spec *)

\* C1: start_recording is legal only from Idle.  A call made while the
\* RecordingState is Recording or Paused returns an error and leaves the
\* RecordingState, the recorder state and the pipeline's command queues as
\* they were.
C1_StartRecordingOnlyFromIdle ==
    [][\A t \in Callers :
          (start_recording_set_state(t) /\ recording_state.tag \in {"Recording", "Paused"})
             => /\ result' = Returned("start_recording", "Err")
                /\ UNCHANGED <<recording_state, audio_recorder, managers>>]_vars

\* C2: for every interleaving of start_recording and stop_recording calls, the
\* starts that returned Ok exceed the stops that returned Ok by 0 or 1 at every
\* moment; and once every call has returned, the records created are as many
\* as the successful stops, and with as many stops as starts the
\* RecordingState is Idle and the recorder is not recording.
C2_StartStopConsistent ==
    /\ tally.starts - tally.stops \in {0, 1}
    /\ (\A t \in Callers : pc[t] = "idle") =>
          /\ next_uuid - 1 = tally.stops
          /\ tally.starts = tally.stops =>
                (recording_state = Idle /\ ~audio_recorder.is_recording)

\* C3: at every instant at most one audio stream, capture or playback, is
\* open, counted over all the audio-manager threads ever spawned.
C3_AtMostOneStream ==
    Cardinality({m \in ManagerIds : is_some(managers[m].current_stream)}) <= 1

\* C8: a command that fails in the pipeline leaves the audio-manager thread
\* running with no stream and no writer sender and with the rest of its queue
\* to handle; the thread ends only when its queue is empty and the
\* coordinator holds no sender to it, so every command sent to it is handled.
C8_FailedCommandLeavesPipelineIdle ==
    [][\A m \in ManagerIds :
          /\ (/\ audio_manager_thread(m)
              /\ managers'[m].last_log \in
                    {"Failed to start recording", "Failed to start playback"})
                => /\ managers'[m].current_stream = None
                   /\ managers'[m].current_writer_sender = None
                   /\ managers'[m].status = "running"
                   /\ managers'[m].queue = Tail(managers[m].queue)
          /\ (managers[m].status = "running" /\ managers'[m].status # "running")
                => /\ managers[m].queue = <<>>
                   /\ audio_recorder.command_sender # Some(m)]_vars

\* An audio-manager thread whose last command failed to start a recording is
\* running, and has further commands queued.
C8_Witness ==
    \E m \in ManagerIds :
        /\ managers[m].last_log = "Failed to start recording"
        /\ managers[m].status = "running"
        /\ managers[m].queue # <<>>

\* C9: pause_recording from a state other than Recording, resume_recording
\* from a state other than Paused and stop_recording from Idle each return an
\* error and leave the RecordingState, the recorder state, the pipeline's
\* command queues and the recordings list unchanged.
C9_IllegalTransitionsChangeNothing ==
    [][\A t \in Callers :
          /\ (pause_recording(t) /\ recording_state.tag # "Recording")
                => /\ result' = Returned("pause_recording", "Err")
                   /\ UNCHANGED <<recording_state, audio_recorder, managers, recordings>>
          /\ (resume_recording(t) /\ recording_state.tag # "Paused")
                => /\ result' = Returned("resume_recording", "Err")
                   /\ UNCHANGED <<recording_state, audio_recorder, managers, recordings>>
          /\ (stop_recording_take_state(t) /\ recording_state.tag = "Idle")
                => /\ result' = Returned("stop_recording", "Err")
                   /\ pc'[t] = "idle"
                   /\ UNCHANGED <<recording_state, audio_recorder, managers, recordings>>]_vars

\* resume_recording has just been refused while a recording is in progress.
C9_Witness ==
    /\ result = Returned("resume_recording", "Err")
    /\ recording_state.tag = "Recording"
    /\ audio_recorder.is_recording

\* C10: pause_recording and resume_recording change only the RecordingState
\* label.  Neither sends a command to the pipeline nor touches the recorder
\* state, the streams or the files; a pause keeps the start_time and the
\* file_path of the recording, and a resume gives them back in Recording.
C10_PauseResumeChangeOnlyLabel ==
    [][\A t \in Callers :
          /\ (pause_recording(t) \/ resume_recording(t))
                => UNCHANGED <<audio_recorder, managers, files, recordings, playback_state>>
          /\ (pause_recording(t) /\ recording_state.tag = "Recording")
                => /\ recording_state'.tag = "Paused"
                   /\ recording_state'.start_time = recording_state.start_time
                   /\ recording_state'.file_path = recording_state.file_path
          /\ (resume_recording(t) /\ recording_state.tag = "Paused")
                => recording_state' =
                      [tag |-> "Recording", start_time |-> recording_state.start_time,
                       file_path |-> recording_state.file_path]]_vars

\* A recording that was paused and resumed at a later time is Recording again,
\* with its earlier start_time, while its capture stream is still open.
C10_Witness ==
    /\ result = Returned("resume_recording", "Ok")
    /\ recording_state.tag = "Recording"
    /\ recording_state.start_time < now
    /\ audio_recorder.is_recording
    /\ \E m \in ManagerIds :
          managers[m].current_stream =
             Some([kind |-> "capture", file_path |-> recording_state.file_path])

----------------------------------------------------------------------------
(* Properties of the meeting detector, checked under SpecDetector *)

\* C4: in every reachable state is_in_meeting is true iff detected_app is Some
\* iff started_at is Some, for the MeetingState and for every snapshot that
\* get_state returned.
C4_MeetingStateConsistent ==
    \A ms \in {meeting_state} \cup snapshot :
        /\ ms.is_in_meeting <=> is_some(ms.detected_app)
        /\ ms.is_in_meeting <=> is_some(ms.started_at)

\* get_state returned a snapshot taken in a meeting that has ended since, and
\* monitoring has been stopped.
C4_Witness ==
    /\ is_some(snapshot)
    /\ unwrap(snapshot).is_in_meeting
    /\ ~meeting_state.is_in_meeting
    /\ ~monitoring

\* C5: start_monitoring refuses whenever a poll loop is still active, so at
\* most one poll loop is running at any time.
C5_AtMostOnePollLoop == Cardinality(RunningLoops) <= 1

\* C6: a poll loop that was running when stop_monitoring returned leaves its
\* `while` at its next test of the run flag, whatever calls came in between.
C6_StoppedLoopExitsAtNextCheck ==
    [][\A l \in LoopIds :
          (loops[l].stop_seen /\ loops[l].pc = "check" /\ loops'[l].pc # "check")
             => loops'[l].pc = "exited"]_vars

----------------------------------------------------------------------------
(* Properties of the poisoned locks, checked under SpecPoison *)

\* C7: after a thread panicked holding a lock, no later caller fails on the
\* poisoned lock and no poll loop dies of it.
C7_PoisonIsRecovered ==
    /\ detector_result \notin {"PoisonError", "PoisonErrorInStop"}
    /\ \A l \in LoopIds : loops[l].pc # "poison_panicked"

----------------------------------------------------------------------------
(* Properties of the stored list, checked under SpecStore *)

\* C11: the list of recordings in memory and the list written to the metadata
\* file never hold more than MAX_RECENT_RECORDINGS (5) entries, whatever
\* stop_recording, delete_recording and load_recordings_from_disk calls have
\* been made, overlapping ones included.
C11_AtMostFiveRecordings ==
    /\ Len(recordings) <= MAX_RECENT_RECORDINGS
    /\ \A content \in metadata_file :
          content.text = "array" => Len(content.entries) <= MAX_RECENT_RECORDINGS

\* A recording of this run has been put in front of a full list, in memory
\* and in the metadata file.
C11_Witness ==
    /\ Len(recordings) = MAX_RECENT_RECORDINGS
    /\ recordings[1].id > 0
    /\ recordings[2].id < 0
    /\ result = Returned("stop_recording", "Ok")
    /\ \E content \in metadata_file :
          /\ content.text = "array"
          /\ Len(content.entries) = MAX_RECENT_RECORDINGS
          /\ content.entries[1].id > 0

----------------------------------------------------------------------------
(* Properties of overlapping stop_recording calls, checked under SpecOverlap *)

\* C12: whenever the list of recordings is saved or loaded it is ordered by
\* timestamp, newest first, for every interleaving of overlapping
\* stop_recording and delete_recording calls: neither the list in memory nor
\* the list in the metadata file has an older entry before a newer one.
C12_ListNewestFirst ==
    /\ \A i, j \in 1 .. Len(recordings) :
          i < j => recordings[i].timestamp >= recordings[j].timestamp
    /\ \A content \in metadata_file :
          content.text = "array" =>
             \A i, j \in 1 .. Len(content.entries) :
                i < j => content.entries[i].timestamp >= content.entries[j].timestamp

----------------------------------------------------------------------------
(* Properties of the metadata file, checked under SpecMetadata *)

C15_OnlyMalformedContentFails ==
    LET loaded == load_recordings_metadata(metadata_file, files, TRUE)
    IN  /\ metadata_file = None => loaded = [ok |-> TRUE, recordings |-> <<>>]
        /\ \A content \in metadata_file :
              /\ content.text \in {"empty", "whitespace"}
                    => loaded = [ok |-> TRUE, recordings |-> <<>>]
              /\ ~loaded.ok => content.text = "malformed"

----------------------------------------------------------------------------
(* Properties of delete_recording, checked under SpecDelete *)

\* C16: after delete_recording(id) has returned Ok, no entry with that id is
\* in the list in memory or in the metadata file, its backing file no longer
\* exists, and the PlaybackState is not Playing for that id, for every
\* interleaving with a concurrent play_recording(id).
C16_DeletedRecordingIsGone ==
    (result.op = "delete_recording" /\ result.value = "Ok") =>
        /\ \A i \in 1 .. Len(recordings) : recordings[i].id # result.recording.id
        /\ \A content \in metadata_file :
              content.text = "array" =>
                 \A i \in 1 .. Len(content.entries) :
                    content.entries[i].id # result.recording.id
        /\ result.recording.filename \notin files
        /\ ~(/\ playback_state.tag = "Playing"
             /\ playback_state.recording_id = result.recording.id)

----------------------------------------------------------------------------
(* Properties of stop_recording and the conversion, checked under Spec *)

\* C17: a successful stop_recording returns a Recording whose filename is the
\* converted file when the conversion succeeded and the original container
\* file when it failed; in both cases the record is put at the front of the
\* list, and the file it names exists on disk when stop_recording returns.
C17_ReturnedRecordingNamesAFile ==
    [][\A t \in Callers :
          /\ (stop_recording_convert(t) /\ pc'[t] = "stop_recording_save")
                => LET opus_path == with_extension(locals[t].file_path, "opus")
                       filename == locals'[t].recording.filename
                   IN  /\ filename \in {opus_path, locals[t].file_path}
                       /\ filename = opus_path => opus_path \in files'
          /\ stop_recording_save(t)
                => /\ result' = Returned("stop_recording", "Ok")
                   /\ recordings'[1] = locals[t].recording
                   /\ locals[t].recording.filename \in files']_vars

\* C18: the conversion ends in one of two file states: on Ok the output file
\* exists and the source file has been deleted; on Err no output file remains
\* and a source file that existed before the call still exists.
C18_ConvertEndsInOneOfTwoFileStates ==
    [][\A t \in Callers :
          stop_recording_convert(t)
             => LET wav_path == locals[t].file_path
                    opus_path == with_extension(locals[t].file_path, "opus")
                IN  /\ pc'[t] = "stop_recording_save"
                    /\ locals'[t].recording.filename = opus_path
                          => opus_path \in files' /\ wav_path \notin files'
                    /\ locals'[t].recording.filename = wav_path
                          => /\ opus_path \notin files'
                             /\ wav_path \in files => wav_path \in files']_vars

----------------------------------------------------------------------------
(* Properties of the transcription task, checked under SpecStore *)

\* C19: stop_recording starts the transcription if and only if the conversion
\* produced the compact format, at most once per recording, and returns its
\* Recording without waiting for the transcription to finish: the step that
\* inserts the Recording spawns one task for it exactly when its file is the
\* compact one and returns Ok in that same step, no other step spawns a
\* task, and no recording ever has two.
C19_TranscriptionOnlyForCompactFile ==
    [][/\ \A t \in Callers :
             stop_recording_save(t)
                => /\ CopiesIn(locals[t].recording.id, transcriptions) = 0
                   /\ CopiesIn(locals[t].recording.id, transcriptions') = 1
                         <=> locals[t].recording.filename.ext = "opus"
                   /\ \A id \in BagToSet(transcriptions) \cup BagToSet(transcriptions') :
                         id # locals[t].recording.id
                            => CopiesIn(id, transcriptions') = CopiesIn(id, transcriptions)
                   /\ pc'[t] = "idle"
                   /\ result' = Returned("stop_recording", "Ok")
       /\ (\A t \in Callers : pc[t] # "stop_recording_save" \/ pc'[t] = pc[t])
             => transcriptions' = transcriptions
       /\ \A id \in BagToSet(transcriptions') : CopiesIn(id, transcriptions') = 1]_vars

\* A stop_recording whose conversion gave the compact file has returned, with
\* one transcription task spawned for its Recording.
C19_Witness ==
    /\ result = Returned("stop_recording", "Ok")
    /\ Len(recordings) > 0
    /\ recordings[1].id > 0
    /\ recordings[1].filename.ext = "opus"
    /\ CopiesIn(recordings[1].id, transcriptions) = 1

----------------------------------------------------------------------------
(* Properties of the wait for the container, checked under Spec *)

\* C20: after sending StopRecording, stop_recording checks the container file
\* at most 5 times; when the file is still not ready after the last attempt
\* (here: missing) the FileNotReady condition is surfaced to the caller as an
\* error, and stop_recording does not go on as if the file were complete.
C20_FileNotReadyIsSurfaced ==
    [][\A t \in Callers :
          (stop_recording_convert(t) /\ locals[t].file_path \notin files)
             => /\ pc'[t] = "idle"
                /\ result' = Returned("stop_recording", "Err")]_vars


\* C21: every RecordingState transition (start, pause, resume, stop) gives the
\* tray exactly one notification, and a call that fails gives none: the step
\* in which start_recording, pause_recording, resume_recording or
\* stop_recording returns Ok makes one update_tray_menu call, and every other
\* step makes none.
C21_EachTransitionNotifiesOnce ==
    [][LET returns ==
               \/ tally'.calls = tally.calls + 1 /\ pc' = pc
               \/ \E t \in Callers : pc[t] # "idle" /\ pc'[t] = "idle"
           transition ==
               /\ returns
               /\ result'.op \in {"start_recording", "pause_recording",
                                  "resume_recording", "stop_recording"}
               /\ result'.value = "Ok"
       IN  tray_menu'.updates = tray_menu.updates + (IF transition THEN 1 ELSE 0)]_vars
\* C22: every false-to-true edge of is_in_meeting gives the frontend exactly
\* one "meeting-detected" event and every true-to-false edge exactly one
\* "meeting-ended" event: the events emitted alternate, the first being
\* "meeting-detected", and the last one tells what the thread saw last.
C22_MeetingEventsAlternate ==
    /\ \A i \in 1 .. Len(emitted) :
          emitted[i] = IF i % 2 = 1 THEN "meeting-detected" ELSE "meeting-ended"
    /\ notifier.was_in_meeting <=> Len(emitted) % 2 = 1

\* C23: for one snapshot of the probes the classifier returns the first match
\* in a fixed order (the process rules Zoom, Slack Huddle, Teams, Discord, then
\* the browsers Chrome, Dia, Safari, then the microphone); a probe that fails
\* matches nothing, and the result is None exactly when no rule holds.  Chrome
\* and Safari apply the URL rules Google Meet, Zoom, Teams, Slack Huddle to
\* their tabs; Dia reports an unknown meeting when it holds an audio device.
C23_FirstMatchDiaByMicrophone ==
    detected.call = "detect_meeting_apps" =>
        detected.app = first_match(rule_list(probes, "microphone"))

\* C23 as stated: Dia applies the four URL rules to its tabs like the other
\* two browsers.
C23_FirstMatchInStatedOrder ==
    detected.call = "detect_meeting_apps" =>
        detected.app = first_match(rule_list(probes, "url rules"))

\* A pass in which Dia holds an audio device and Safari has a meeting tab
\* open: Dia, asked first, decides.
C23_Witness ==
    /\ detected.call = "detect_meeting_apps"
    /\ detected.app = Some("Unknown")
    /\ probes.safari = Some(<<TAB_URLS.teams>>)
    /\ probes.ps = None

C25_VerdictIsTabByTab ==
    detected.call = "check_chrome_urls" /\ is_some(probes.chrome) =>
        LET tabs == unwrap(probes.chrome)
            alone == {check_chrome_urls(Some(tabs[n])) : n \in 1 .. Len(tabs)} \ {None}
        IN  IF alone = {} THEN detected.app = None ELSE detected.app \in alone


\* C26: stop_monitoring never fails and never modifies the MeetingState: every
\* call returns normally with the run flag false, leaves the MeetingState as
\* it was and neither starts nor ends a poll loop itself, so that a call with
\* the flag already false, a repeated call included, changes nothing.
C26_StopMonitoringIsASafeNoOp ==
    [][(stop_monitoring \/ stop_monitoring_poisoned) =>
          /\ detector_result' = "Stopped"
          /\ monitoring' = FALSE
          /\ meeting_state' = meeting_state
          /\ \A l \in LoopIds : loops'[l].pc = loops[l].pc]_vars

\* C27: distinct recording sessions get distinct container file paths: no two
\* start_recording calls in progress chose the same path, no two recordings in
\* the list come from the same container, and the session now recording does
\* not write to the container of a listed recording.
C27_SessionPathsDistinct ==
    /\ \A t, u \in Callers :
          /\ t # u
          /\ pc[t] = "start_recording_audio"
          /\ pc[u] = "start_recording_audio"
          => locals[t].file_path # locals[u].file_path
    /\ \A i, j \in 1 .. Len(recordings) :
          i # j => with_extension(recordings[i].filename, "wav")
                       # with_extension(recordings[j].filename, "wav")
    /\ \A i \in 1 .. Len(recordings) :
          recording_state.tag # "Idle"
          => with_extension(recordings[i].filename, "wav") # recording_state.file_path

\* C28: commands are handled in the order they were sent, re-initializations
\* of the audio system included.  The thread that reads the channel whose
\* sender the recorder holds is the youngest one, and whatever still waits in
\* the queue of another thread was sent before that channel was made: so
\* when the youngest thread handles a command, no other queue holds one.
C28_CommandsHandledInSendOrder ==
    [][\A m \in ManagerIds :
          /\ audio_recorder.command_sender = Some(m)
          /\ managers[m].queue # <<>>
          /\ managers'[m].queue = Tail(managers[m].queue)
          => \A k \in ManagerIds \ {m} : managers[k].queue = <<>>]_vars

\* C29: every command sent to the pipeline is eventually handled, exactly
\* once, the commands still queued when stop_recording drops the sender
\* included: a queue changes only by a command sent to it or by its running
\* thread taking the first one, and a queue that holds commands is emptied.
C29_QueuedCommandsAreHandled ==
    /\ [][\A m \in ManagerIds :
             managers'[m].queue # managers[m].queue =>
                 \/ \E command \in {[kind |-> "StopRecording"]}
                        \cup {[kind |-> "StartRecording", file_path |-> locals[t].file_path] :
                                 t \in {u \in Callers : pc[u] = "start_recording_audio"}} :
                        managers'[m].queue = Append(managers[m].queue, command)
                 \/ /\ managers[m].status = "running"
                    /\ managers[m].queue # <<>>
                    /\ managers'[m].queue = Tail(managers[m].queue)]_vars
    /\ \A m \in ManagerIds :
          (managers[m].queue # <<>>) ~> (managers[m].queue = <<>>)

\* A thread has handled the StopRecording that was sent to it just before
\* its sender was dropped.
C29_Witness ==
    \E m \in ManagerIds :
        /\ managers[m].last_log = "Stopped audio recording"
        /\ managers[m].queue = <<>>
        /\ audio_recorder.command_sender # Some(m)


\* C30: stop_recording hands the container to the converter only after the
\* writer thread has finalized it.  The writer finalizes when its channel is
\* closed, so while an audio-manager thread still holds the sender of the
\* container's writer the container is not finalized: no conversion of an
\* existing container begins in such a state.
C30_ConvertOnlyFinalizedContainer ==
    [][\A t \in Callers :
          /\ pc[t] = "stop_recording_convert"
          /\ pc'[t] # "stop_recording_convert"
          /\ locals[t].file_path \in files
          => \A m \in ManagerIds :
                 managers[m].current_writer_sender # Some(locals[t].file_path)]_vars

----------------------------------------------------------------------------
(* Properties of the sample writer, checked under SpecWriter *)

\* The samples in the container are the first samples the callback produced,
\* converted, in the callback's order.
WrittenInCallbackOrder ==
    /\ Len(writer.file) <= Len(writer.produced)
    /\ \A i \in 1 .. Len(writer.file) : writer.file[i] = sample_i16(writer.produced[i])

\* Without a write error nothing that was queued is lost: what is neither in
\* the container nor in the channel has not been produced, and the writer
\* returns with every sample written.
NoneDropped ==
    ~writer.write_failed =>
        /\ Len(writer.file) + Len(writer.channel) = Len(writer.produced)
        /\ writer.status = "returned" => Len(writer.file) = Len(writer.produced)

----------------------------------------------------------------------------
(* Properties of one poll tick, checked under SpecDetector *)

\* What a tick makes of MeetingState `s` when the classifier reports `md` at
\* time `at`, told from s.is_in_meeting and md alone.
TickOutcome(s, md, at) ==
    CASE md # None /\ ~s.is_in_meeting ->
           [is_in_meeting |-> TRUE, detected_app |-> md, started_at |-> Some(at)]
      [] md = None /\ s.is_in_meeting ->
           [is_in_meeting |-> FALSE, detected_app |-> None, started_at |-> None]
      [] OTHER -> s

\* C32: a poll tick updates MeetingState as a function of the previous
\* is_in_meeting and the tick's classifier result only: Some(app) while not in
\* a meeting enters the meeting with that app and the time of the tick, None
\* while in a meeting clears the three fields at once, and every other tick
\* leaves the state as it was, so detected_app and started_at keep their
\* values even when another app is reported.
C32_TickFollowsFlagAndResult ==
    [][\A l \in LoopIds :
          loops[l].pc = "tick" /\ loops'[l].pc = "check" =>
             /\ \A md \in {None} \cup {Some(a) : a \in MeetingApp} :
                   poll_update(meeting_state, md, now) = TickOutcome(meeting_state, md, now)
             /\ \E md \in {None} \cup {Some(a) : a \in MeetingApp} :
                   meeting_state' = TickOutcome(meeting_state, md, now)
             /\ meeting_state.is_in_meeting /\ meeting_state'.is_in_meeting =>
                   meeting_state' = meeting_state]_vars

\* A meeting entered at time 0 is still the same meeting, with its app and its
\* start time, after the clock has moved and ticks have passed.
C32_Witness ==
    /\ meeting_state.is_in_meeting
    /\ meeting_state.detected_app = Some("GoogleMeet")
    /\ meeting_state.started_at = Some(0)
    /\ now > 0
    /\ \E l \in LoopIds : loops[l].pc = "tick"

----------------------------------------------------------------------------
(* Properties of the lock blocks, checked under Spec *)

\* C33: no operation holds a state lock while it does file I/O or spawns a
\* thread.  A step of the model is one lock block of the source, so a step
\* that changes the data a lock guards is made with that lock held: no step
\* that changes the recordings list writes or removes a file, and no step that
\* changes the RecorderState starts an audio-manager thread.
C33_NoIoUnderStateLock ==
    [][/\ recordings' # recordings => metadata_file' = metadata_file /\ files' = files
       /\ audio_recorder' # audio_recorder =>
             \A m \in ManagerIds : managers'[m].status = managers[m].status]_vars

----------------------------------------------------------------------------
(* Properties of the mutexes, checked under SpecLocks *)

\* C34: no interleaving of the operations deadlocks: a thread holds the guard
\* of at most one mutex at a time, and every operation that was entered
\* returns: the operations entered being finitely many, from some point on no
\* thread is inside one.
C34_OneGuardAtATimeAndReturns ==
    /\ [](\A t \in Callers : Cardinality({m \in Mutexes : lock_owner[m] = Some(t)}) <= 1)
    /\ <>[](\A t \in Callers : pc[t] = "idle")

\* Two operations that need the same mutex have met: one holds the guard of
\* the recordings list while the other waits for it.
C34_Witness ==
    \E t, u \in Callers :
       /\ lock_owner["recordings"] = Some(t)
       /\ pc[u] = "lock_step"
       /\ Head(locals[u].steps) = [do |-> "lock", mutex |-> "recordings"]

----------------------------------------------------------------------------
(* Properties of the coordinator and the pipeline together, checked under Spec *)

\* C35: whenever no coordinator call is in progress, RecordingState is Idle
\* if and only if the recorder's is_recording flag is false and no
\* audio-manager thread holds a capture stream.
C35_IdleIffNotRecordingAndNoCapture ==
    (\A t \in Callers : pc[t] = "idle") =>
        (recording_state = Idle <=>
            /\ ~audio_recorder.is_recording
            /\ \A m \in ManagerIds :
                  \/ managers[m].current_stream = None
                  \/ unwrap(managers[m].current_stream).kind # "capture")

\* C36: a stop command stops only the kind of stream it names: the thread
\* that handles StopPlayback while it holds a capture stream keeps the stream
\* and its writer sender, and the thread that handles StopRecording while it
\* holds a playback stream keeps that stream.
C36_StopTouchesOnlyItsKind ==
    [][\A m \in ManagerIds :
          /\ managers[m].queue # <<>>
          /\ managers'[m].queue = Tail(managers[m].queue)
          /\ is_some(managers[m].current_stream)
          /\ \/ /\ Head(managers[m].queue).kind = "StopPlayback"
                /\ unwrap(managers[m].current_stream).kind = "capture"
             \/ /\ Head(managers[m].queue).kind = "StopRecording"
                /\ unwrap(managers[m].current_stream).kind = "playback"
          => /\ managers'[m].current_stream = managers[m].current_stream
             /\ managers'[m].current_writer_sender = managers[m].current_writer_sender]_vars

----------------------------------------------------------------------------
(* Properties of the playback state, checked under SpecDelete *)

\* C37: PlaybackState is Playing{recording_id} only while a recording with
\* that id is in the list and an audio-manager thread holds a playback stream
\* for its file; a play_recording call that returns an error leaves
\* PlaybackState as it was.
C37_PlayingHasRecordingAndStream ==
    /\ [](playback_state.tag = "Playing" =>
             /\ is_some(find_recording(recordings, playback_state.recording_id))
             /\ \E m \in ManagerIds :
                   managers[m].current_stream =
                      Some([kind |-> "playback", file_path |-> playback_state.filename]))
    /\ [][(/\ result'.op = "play_recording" /\ result'.value = "Err"
            /\ \E t \in Callers : pc'[t] = "idle" /\ locals[t] # locals'[t])
             => playback_state' = playback_state]_vars

----------------------------------------------------------------------------
(* Properties of the transcription events, checked under SpecTranscription *)

\* C38: for every recording id the transcription events come in the order
\* started, then one outcome: a transcription_success or transcription_failed
\* event is preceded by a transcription_started event for the same id, and no
\* id has more than one outcome event.
C38_OutcomeFollowsStarted ==
    /\ \A i \in 1 .. Len(task_events) :
          task_events[i].event \in {"transcription_success", "transcription_failed"} =>
             \E j \in 1 .. (i - 1) :
                /\ task_events[j].event = "transcription_started"
                /\ task_events[j].recording_id = task_events[i].recording_id
    /\ \A i, j \in 1 .. Len(task_events) :
          /\ task_events[i].recording_id = task_events[j].recording_id
          /\ task_events[i].event # "transcription_started"
          /\ task_events[j].event # "transcription_started"
          => i = j

----------------------------------------------------------------------------
(* Properties of the files on disk *)

\* C39: cutting the list to the retention count removes only the entry: the
\* step that drops a recording from the list by inserting another leaves
\* every file on disk; and a file is removed only by delete_recording, which
\* removes the file of the recording it was called for, and by a successful
\* conversion, which removes the container it converted.
C39_OnlyDeleteAndConversionRemoveFiles ==
    [][/\ (\E t \in Callers : pc[t] = "stop_recording_save") /\ recordings' # recordings
             => files' = files
       /\ \A f \in files \ files' :
             \/ \E t \in Callers :
                   /\ pc[t] = "delete_recording_file"
                   /\ locals[t].recording.filename = f
             \/ \E t \in Callers :
                   /\ pc[t] = "stop_recording_convert"
                   /\ pc'[t] = "stop_recording_save"
                   /\ locals[t].file_path = f
                   /\ locals'[t].recording.filename = with_extension(f, "opus")
                   /\ with_extension(f, "opus") \in files']_vars


----------------------------------------------------------------------------
(* Properties of the duration of a recording, checked under SpecDuration *)

\* The number a run of decimal digits stands for, highest digit first.
RECURSIVE DecimalValue(_)
DecimalValue(text) ==
    LET DigitValue(c) ==
           CHOOSE k \in 0 .. 9 :
              <<"0", "1", "2", "3", "4", "5", "6", "7", "8", "9">>[k + 1] = c
    IN  IF text = <<>>
        THEN 0
        ELSE 10 * DecimalValue(SubSeq(text, 1, Len(text) - 1))
                + DigitValue(text[Len(text)])

\* `text` shows d seconds as minutes, a colon and two digits of seconds.
ShowsMinutesAndSeconds(text, d) ==
    /\ Len(text) >= 4
    /\ text[Len(text) - 2] = ":"
    /\ \A i \in 1 .. Len(text) :
          i # Len(text) - 2
          => text[i] \in {"0", "1", "2", "3", "4", "5", "6", "7", "8", "9"}
    /\ Len(text) > 4 => text[1] # "0"
    /\ DecimalValue(SubSeq(text, 1, Len(text) - 3)) = d \div 60
    /\ DecimalValue(SubSeq(text, Len(text) - 1, Len(text))) = d % 60

\* C40: the duration of a Recording is the whole number of seconds d from
\* the start time that start_recording stored to the time stop_recording
\* reads, written as d div 60, a colon and d mod 60 in two digits.  Pausing
\* and resuming keep the start time, and stop_recording takes the start time
\* alone from a paused session, so the time spent paused counts and the
\* elapsed value of the Paused state does not enter.
C40_DurationIsSecondsSinceStart ==
    [][/\ \A t \in Callers :
             pc[t] = "idle" /\ pc'[t] = "start_recording_audio"
             => recording_state'.start_time = now
       /\ pc' = pc /\ recording_state.tag # "Idle" /\ recording_state'.tag # "Idle"
             => recording_state'.start_time = recording_state.start_time
       /\ \A t \in Callers :
             pc[t] = "idle" /\ pc'[t] = "stop_recording_audio"
             => locals'[t].start_time = recording_state.start_time
       /\ \A t \in Callers :
             pc[t] = "stop_recording_audio" /\ pc'[t] = "stop_recording_convert"
             => /\ locals'[t].start_time = locals[t].start_time
                /\ locals'[t].end_time = now
       /\ \A t \in Callers :
             pc[t] = "stop_recording_convert" /\ pc'[t] = "stop_recording_save"
             => ShowsMinutesAndSeconds(
                   locals'[t].recording.duration,
                   (locals[t].end_time - locals[t].start_time) \div TicksPerSecond)]_vars

\* A session was paused and then stopped 130 seconds after its start, and
\* its Recording says 2:10.
C40_Witness ==
    /\ result = Returned("pause_recording", "Ok")
    /\ \E t \in Callers :
          /\ pc[t] = "stop_recording_save"
          /\ locals[t].recording.duration = <<"2", ":", "1", "0">>
          /\ locals[t].recording.timestamp = 130 * TicksPerSecond
====
